---- MODULE Spec2Model ----
(***************************************************************************)
(* Verification model of market-flow: the review-refine controller         *)
(* (workflows/agents_workflow.py, agents/boss_agent.py,                    *)
(* agents/modeling_agent.py) and the valuation engine                      *)
(* (models/dcf_model.py, models/cbcv_model.py).                            *)
(*                                                                         *)
(* The controller is a state machine over the positions of                 *)
(* run_agents_workflow.  The valuation functions are pure: each gets a     *)
(* specification whose single action draws the arguments and the fetched   *)
(* data from bounded sets and applies the function.  Real numbers are      *)
(* exact rationals <<n, d>> with d > 0.                                    *)
(***************************************************************************)
EXTENDS Integers, Sequences, FiniteSets, TLC

VARIABLES
    pc,               \* position in run_agents_workflow
    upload_to_drive,  \* run_agents_workflow's parameter
    current_analysis, \* id of the text held in current_analysis (0: none yet)
    iteration,        \* the loop counter of run_agents_workflow
    review_history,   \* the list of parsed verdicts, in review order
    analysis_urls,    \* traceability uploads: <<iteration, type, text id>>
    refine_args,      \* the arguments of the pending / last refine call
    stop_reason,      \* response.stop_reason inside _run_with_tools
    tool_iteration,   \* _run_with_tools' local counter
    workflow_result,  \* the dict built at line 173 (returned when pc = "done")
    error,            \* the exception that left run_agents_workflow, if any
    producer_calls,   \* number of analyze + refine calls made so far
    reviewer_calls,   \* number of _review_analyst_report calls made so far
    call,             \* pure-function specifications: the call made
    ret               \* pure-function specifications: its outcome

wfVars == <<pc, upload_to_drive, current_analysis, iteration, review_history,
            analysis_urls, refine_args, stop_reason, tool_iteration,
            workflow_result, error, producer_calls, reviewer_calls>>
fnVars == <<call, ret>>
vars == <<pc, upload_to_drive, current_analysis, iteration, review_history,
          analysis_urls, refine_args, stop_reason, tool_iteration,
          workflow_result, error, producer_calls, reviewer_calls, call, ret>>

(***************************************************************************)
(* Program constants and model bounds                                      *)
(***************************************************************************)
\* BossAgent.MAX_ITERATIONS
MAX_ITERATIONS == 2
\* FinancialModelingAgent.__init__'s default max_tool_iterations
max_tool_iterations == 20
\* number of rubric criteria in BOSS_AGENT_FINANCIAL_MODELING_PROMPT
NumCriteria == 6
\* _parse_review_response echoes response_text[:500]
EchoLimit == 500
\* model bound: no run is followed beyond this many producer or reviewer calls
CallCap == 4

(***************************************************************************)
(* Reviewer output and its parsing (BossAgent._parse_review_response)      *)
(***************************************************************************)
\* A score vector: every criterion at hi except the last one at lo.
ScoreVector(hi, lo) == [i \in 1..NumCriteria |-> IF i = NumCriteria THEN lo ELSE hi]
ScoreVectors == {ScoreVector(hi, lo) : hi \in {3, 4, 5}, lo \in {2, 3, 5}}
\* overall_score as the reviewer reports it, in tenths
OverallScores == {38, 40, 42}

\* Raw reviewer texts.  shape: "no_json" has no {...} span, "bad_json" has a
\* {...} span that json.loads rejects, "json" has a span that loads as an
\* object.  length is the length of the text; a JSON object may lack fields.
NonJsonTexts ==
    [shape : {"no_json", "bad_json"}, length : {EchoLimit, EchoLimit + 1},
     approved : {"absent"}, overall_score : {0}, scores : {<<>>},
     feedback : {"absent"}]
JsonTexts ==
    [shape : {"json"}, length : {EchoLimit},
     approved : {"true", "false", "absent"}, overall_score : OverallScores,
     scores : ScoreVectors, feedback : {"given", "absent"}]
ReviewerTexts == NonJsonTexts \cup JsonTexts

\* re.search(r'\{[\s\S]*\}', response_text) finds a span
JsonMatch(text) == text.shape \in {"bad_json", "json"}
\* json.loads(json_match.group()) succeeds
JsonLoads(text) == text.shape = "json"

\* The default structure returned when parsing fails (lines 163-171).
FallbackVerdict(text) ==
    [approved |-> "false", overall_score |-> 0, scores |-> <<>>,
     feedback |-> "given", parse_error |-> TRUE,
     echo |-> IF text.length <= EchoLimit THEN text.length ELSE EchoLimit]

_parse_review_response(text) ==
    IF JsonMatch(text) /\ JsonLoads(text)
    THEN [approved |-> text.approved, overall_score |-> text.overall_score,
          scores |-> text.scores, feedback |-> text.feedback,
          parse_error |-> FALSE, echo |-> 0]
    ELSE FallbackVerdict(text)

\* Python truthiness of review["approved"] for a key that is present
Truthy(v) == v = "true"

(***************************************************************************)
(* run_agents_workflow                                                     *)
(***************************************************************************)
NoResult == [final_analysis |-> 0, approved |-> "none", iterations |-> 0,
             drive_url |-> "none"]
NoRefine == [feedback |-> "none", prior_analysis |-> 0, reviewed_by |-> 0]

WorkflowIdle ==
    /\ pc = "idle" /\ upload_to_drive = FALSE /\ current_analysis = 0
    /\ iteration = 0 /\ review_history = <<>> /\ analysis_urls = <<>>
    /\ refine_args = NoRefine /\ stop_reason = "none" /\ tool_iteration = 0
    /\ workflow_result = NoResult /\ error = "none"
    /\ producer_calls = 0 /\ reviewer_calls = 0

WorkflowInit ==
    /\ pc = "analyze" /\ upload_to_drive \in BOOLEAN /\ current_analysis = 0
    /\ iteration = 0 /\ review_history = <<>> /\ analysis_urls = <<>>
    /\ refine_args = NoRefine /\ stop_reason = "none" /\ tool_iteration = 0
    /\ workflow_result = NoResult /\ error = "none"
    /\ producer_calls = 0 /\ reviewer_calls = 0

StopReasons == {"tool_use", "end_turn", "max_tokens"}

\* _run_with_tools, lines 240-251: the initial API call of a producer call
\* (modeling_agent.analyze at line 115, modeling_agent.refine at line 155).
ProducerCall ==
    /\ pc \in {"analyze", "refine"}
    /\ producer_calls < CallCap
    /\ producer_calls' = producer_calls + 1
    /\ tool_iteration' = 0
    /\ \E s \in StopReasons : stop_reason' = s
    /\ pc' = "tools"
    /\ UNCHANGED fnVars
    /\ UNCHANGED <<upload_to_drive, current_analysis, iteration, review_history,
                   analysis_urls, refine_args, workflow_result, error,
                   reviewer_calls>>

\* mutant of ToolLoopContinues: the bound is checked one round late
ToolLoopContinues_OffByOne(reason, n) ==
    reason = "tool_use" /\ n <= max_tool_iterations

\* the while condition of _run_with_tools (line 254)
ToolLoopContinues(reason, n) == reason = "tool_use" /\ n < max_tool_iterations

\* _run_with_tools, lines 254-271: one round of the tool-use loop
ToolRound ==
    /\ pc = "tools"
    /\ ToolLoopContinues(stop_reason, tool_iteration)
    /\ tool_iteration' = tool_iteration + 1
    /\ \E s \in StopReasons : stop_reason' = s
    /\ UNCHANGED fnVars
    /\ UNCHANGED <<pc, upload_to_drive, current_analysis, iteration,
                   review_history, analysis_urls, refine_args, workflow_result,
                   error, producer_calls, reviewer_calls>>

\* _run_with_tools returns (lines 273-279); the caller stores the text
\* (lines 116, 160).  The text of the n-th producer call has id n.
ProducerReturn ==
    /\ pc = "tools"
    /\ ~ToolLoopContinues(stop_reason, tool_iteration)
    /\ current_analysis' = producer_calls
    /\ stop_reason' = "none"      \* the locals of _run_with_tools are gone
    /\ tool_iteration' = 0
    /\ pc' = "upload"
    /\ UNCHANGED fnVars
    /\ UNCHANGED <<upload_to_drive, iteration, review_history, analysis_urls,
                   refine_args, workflow_result, error, producer_calls,
                   reviewer_calls>>

\* _upload_analysis_to_drive of the initial analysis (lines 119-127) or of a
\* refinement (lines 163-170)
UploadAnalysis ==
    /\ pc = "upload"
    /\ analysis_urls' = Append(analysis_urls,
          <<iteration, IF iteration = 0 THEN "initial" ELSE "refinement",
            current_analysis>>)
    /\ pc' = "loop"
    /\ UNCHANGED fnVars
    /\ UNCHANGED <<upload_to_drive, current_analysis, iteration, review_history,
                   refine_args, stop_reason, tool_iteration, workflow_result,
                   error, producer_calls, reviewer_calls>>

\* the while condition of the review loop (line 133)
LoopGuard(i) == i < MAX_ITERATIONS
\* mutant of NextIteration: the increment is forgotten
NextIteration_NoIncrement(i) == i
\* iteration += 1 (line 134)
NextIteration(i) == i + 1
\* mutant of AtMaxIterations: the cut-off comes one review late
AtMaxIterations_Late(i) == i > MAX_ITERATIONS
\* the refine cut-off (line 149)
AtMaxIterations(i) == i >= MAX_ITERATIONS

\* mutant of AfterReview: the approval check of line 144 is skipped
AfterReview_RefinesApproved(review, i) ==
    IF review.approved = "absent" THEN "KeyError"
    ELSE IF AtMaxIterations(i) THEN "result"
    ELSE IF review.feedback = "absent" THEN "KeyError"
    ELSE "refine"

\* Where one pass of the loop body (lines 134-159) leaves the workflow, given
\* the parsed verdict and the incremented counter.
AfterReview(review, i) ==
    IF review.approved = "absent" THEN "KeyError"          \* line 144
    ELSE IF Truthy(review.approved) THEN "result"          \* lines 144-146
    ELSE IF AtMaxIterations(i) THEN "result"               \* lines 149-151
    ELSE IF review.feedback = "absent" THEN "KeyError"     \* line 157
    ELSE "refine"

\* One pass of the review loop, lines 133-159: the while condition, the
\* review, and the decision that follows it.  (The while condition is never
\* false in a run: the cut-off at line 149 leaves the loop first.)
Review ==
    /\ pc = "loop"
    /\ IF LoopGuard(iteration)
       THEN /\ reviewer_calls < CallCap
            /\ \E text \in ReviewerTexts :
                 LET review == _parse_review_response(text)
                     i == NextIteration(iteration)
                     next == AfterReview(review, i)
                 IN /\ iteration' = i
                    /\ reviewer_calls' = reviewer_calls + 1
                    /\ review_history' = Append(review_history,
                           [verdict |-> review, reviewed |-> current_analysis,
                            text |-> text])
                    /\ pc' = IF next = "KeyError" THEN "raised" ELSE next
                    /\ error' = IF next = "KeyError" THEN "KeyError" ELSE error
                    /\ refine_args' =
                         IF next = "refine"
                         THEN [feedback |-> review.feedback,
                               prior_analysis |-> current_analysis,
                               reviewed_by |-> reviewer_calls + 1]
                         ELSE refine_args
       ELSE /\ pc' = "result"
            /\ UNCHANGED <<iteration, reviewer_calls, review_history, error,
                           refine_args>>
    /\ UNCHANGED fnVars
    /\ UNCHANGED <<upload_to_drive, current_analysis, analysis_urls, stop_reason,
                   tool_iteration, workflow_result, producer_calls>>

\* mutant of ResultApproved: any review at all counts as approval
ResultApproved_NonEmpty(history) ==
    IF history # <<>> THEN "true" ELSE "false"

\* "approved" of the result dict (line 176)
ResultApproved(history) ==
    IF history # <<>> THEN history[Len(history)].verdict.approved ELSE "false"

\* "final_analysis" of the result dict (line 175)
ResultAnalysis(current) == current

\* Build the result dict (lines 172-182); without upload_to_drive it is
\* returned at once (line 210).
BuildResult ==
    /\ pc = "result"
    /\ workflow_result' = [final_analysis |-> ResultAnalysis(current_analysis),
                           approved |-> ResultApproved(review_history),
                           iterations |-> iteration,
                           drive_url |-> "none"]
    /\ pc' = IF upload_to_drive THEN "final_upload" ELSE "done"
    /\ UNCHANGED fnVars
    /\ UNCHANGED <<upload_to_drive, current_analysis, iteration, review_history,
                   analysis_urls, refine_args, stop_reason, tool_iteration,
                   error, producer_calls, reviewer_calls>>

\* Generate the PDF, upload it and return (lines 185-210).
FinalUpload ==
    /\ pc = "final_upload"
    /\ workflow_result' = [workflow_result EXCEPT !.drive_url = "url"]
    /\ pc' = "done"
    /\ UNCHANGED fnVars
    /\ UNCHANGED <<upload_to_drive, current_analysis, iteration, review_history,
                   analysis_urls, refine_args, stop_reason, tool_iteration,
                   error, producer_calls, reviewer_calls>>

\* Positions at which the workflow waits on a collaborator (model API, reviewer
\* API, PDF generation, Drive upload), any of which may raise.
ExternalCallSites == {"analyze", "refine", "tools", "upload", "loop", "final_upload"}

\* A collaborator raises; nothing in run_agents_workflow catches it.
ExternalFailure ==
    /\ pc \in ExternalCallSites
    /\ pc = "loop" => LoopGuard(iteration)
    /\ pc = "tools" => ToolLoopContinues(stop_reason, tool_iteration)
    /\ pc' = "raised"
    /\ error' = "External"
    /\ UNCHANGED fnVars
    /\ UNCHANGED <<upload_to_drive, current_analysis, iteration, review_history,
                   analysis_urls, refine_args, stop_reason, tool_iteration,
                   workflow_result, producer_calls, reviewer_calls>>

FnIdle == call = [fn |-> "none"] /\ ret = [outcome |-> "none"]

Next ==
    \/ ProducerCall
    \/ ToolRound
    \/ ProducerReturn
    \/ UploadAnalysis
    \/ Review
    \/ BuildResult
    \/ FinalUpload
    \/ ExternalFailure

Init == WorkflowInit /\ FnIdle
Spec == Init /\ [][Next]_vars

\* The steps run_agents_workflow takes by itself.  asyncio.run drives the
\* coroutine until it returns or raises, so a step that stays possible is
\* taken; whether a collaborator fails is not up to the scheduler.
Progress ==
    \/ ProducerCall
    \/ ToolRound
    \/ ProducerReturn
    \/ UploadAnalysis
    \/ Review
    \/ BuildResult
    \/ FinalUpload
FairSpec == Spec /\ WF_vars(Progress)

Terminated == pc \in {"done", "raised"}
LastReview == review_history[Len(review_history)]

(***************************************************************************)
(* Claims about the review-refine controller                               *)
(***************************************************************************)

\* C1: in every run, whatever the verdicts, there are at most
\* MAX_ITERATIONS + 1 producer calls (analyze plus refines) and at most
\* MAX_ITERATIONS reviewer calls.
C1_CallBounds ==
    /\ producer_calls <= MAX_ITERATIONS + 1
    /\ reviewer_calls <= MAX_ITERATIONS

\* A run that used every review: two reviews, the refine between them, done.
C1_Witness ==
    /\ pc = "done"
    /\ reviewer_calls = MAX_ITERATIONS
    /\ producer_calls = MAX_ITERATIONS

\* C2: run_agents_workflow always terminates (returns or raises); the review
\* loop never passes MAX_ITERATIONS and no tool-use loop runs more than
\* max_tool_iterations rounds, even when every response asks for tools.
C2_Terminates ==
    /\ <>Terminated
    /\ [](tool_iteration <= max_tool_iterations /\ iteration <= MAX_ITERATIONS)

\* The refine call's tool loop is cut at the bound while the model still asks
\* for tools.
C2_Witness ==
    /\ pc = "tools"
    /\ producer_calls = 2
    /\ tool_iteration = max_tool_iterations
    /\ stop_reason = "tool_use"

\* The approval threshold of the rubric: average >= 4.0 and no criterion
\* below 3 (boss_agent.py lines 71-73).
MeetsThreshold(v) ==
    /\ v.overall_score >= 40
    /\ \A i \in DOMAIN v.scores : v.scores[i] >= 3

\* C3: a verdict is treated as approved iff its overall score is >= 4.0 and
\* every criterion is >= 3: a verdict the controller refined after does not
\* meet the threshold, and a returned result is approved exactly when its last
\* verdict meets it.
C3_ApprovedIffThreshold ==
    /\ \A k \in 1..(Len(review_history) - 1) :
           ~MeetsThreshold(review_history[k].verdict)
    /\ pc = "done" =>
           (workflow_result.approved = "true"
               <=> MeetsThreshold(LastReview.verdict))

\* C4: a returned result carries the most recently produced analysis; its
\* approved flag is true exactly when the last verdict approved, and is false
\* when the run stopped at MAX_ITERATIONS without an approving verdict.
C4_ExhaustedResult ==
    pc = "done" =>
        /\ workflow_result.final_analysis = producer_calls
        /\ workflow_result.approved = "true"
              <=> Truthy(LastReview.verdict.approved)
        /\ (iteration = MAX_ITERATIONS /\ ~Truthy(LastReview.verdict.approved))
              => workflow_result.approved = "false"

\* An exhausted run: returned after MAX_ITERATIONS reviews, none approving.
C4_Witness ==
    /\ pc = "done"
    /\ iteration = MAX_ITERATIONS
    /\ ~Truthy(LastReview.verdict.approved)
    /\ workflow_result.final_analysis = 2
    /\ workflow_result.approved = "false"

\* A reviewer text that is a well-formed verdict record.
WellFormed(text) ==
    /\ text.shape = "json"
    /\ text.approved # "absent"
    /\ text.feedback # "absent"

\* The conservative verdict: not approved, score 0, feedback echoing the text.
Conservative(v, text) ==
    /\ v.approved = "false"
    /\ v.overall_score = 0
    /\ v.feedback = "given"
    /\ v.echo > 0

\* C5: every reviewer text that is not a well-formed verdict record (no JSON,
\* invalid JSON, JSON lacking 'approved' or 'feedback') yields the conservative
\* verdict, and the workflow never raises because of it.
C5_MalformedRecovered ==
    /\ error # "KeyError"
    /\ \A k \in 1..Len(review_history) :
           ~WellFormed(review_history[k].text)
               => Conservative(review_history[k].verdict, review_history[k].text)

(***************************************************************************)
(* Exact rational arithmetic: <<n, d>> with d > 0, in lowest terms         *)
(***************************************************************************)
Abs(x) == IF x < 0 THEN -x ELSE x

RECURSIVE GCD(_, _)
GCD(a, b) == IF b = 0 THEN a ELSE GCD(b, a % b)

\* n/d in lowest terms (d # 0)
Rat(n, d) ==
    LET g == GCD(Abs(n), Abs(d))
        s == IF d < 0 THEN -1 ELSE 1
    IN <<s * (n \div g), s * (d \div g)>>

Zero == <<0, 1>>
One == <<1, 1>>
RInt(k) == <<k, 1>>
RAdd(a, b) == Rat(a[1] * b[2] + b[1] * a[2], a[2] * b[2])
RSub(a, b) == Rat(a[1] * b[2] - b[1] * a[2], a[2] * b[2])
RMul(a, b) == Rat(a[1] * b[1], a[2] * b[2])
\* a / b (b # 0)
RDiv(a, b) == Rat(a[1] * b[2], a[2] * b[1])
RLt(a, b) == a[1] * b[2] < b[1] * a[2]
RLe(a, b) == a[1] * b[2] <= b[1] * a[2]
RMax(a, b) == IF RLt(a, b) THEN b ELSE a
RMin(a, b) == IF RLt(b, a) THEN b ELSE a
RAbs(a) == <<Abs(a[1]), a[2]>>

(***************************************************************************)
(* models/dcf_model.py                                                     *)
(***************************************************************************)
\* the guard of calculate_terminal_value (lines 200-203)
TerminalValueRaises(perpetual_growth, wacc) == RLe(wacc, perpetual_growth)

\* mutant of calculate_terminal_value: the guard is strict, so WACC == growth
\* reaches the division
calculate_terminal_value_StrictGuard(final_fcf, perpetual_growth, wacc) ==
    IF RLt(wacc, perpetual_growth)
    THEN [outcome |-> "ValueError", value |-> Zero]
    ELSE IF wacc = perpetual_growth
    THEN [outcome |-> "ZeroDivisionError", value |-> Zero]
    ELSE [outcome |-> "ok",
          value |-> RDiv(RMul(final_fcf, RAdd(One, perpetual_growth)),
                         RSub(wacc, perpetual_growth))]

\* calculate_terminal_value (lines 184-205): Gordon growth, ValueError when
\* wacc <= perpetual_growth
calculate_terminal_value(final_fcf, perpetual_growth, wacc) ==
    IF TerminalValueRaises(perpetual_growth, wacc)
    THEN [outcome |-> "ValueError", value |-> Zero]
    ELSE [outcome |-> "ok",
          value |-> RDiv(RMul(final_fcf, RAdd(One, perpetual_growth)),
                         RSub(wacc, perpetual_growth))]

\* Defaults of calculate_wacc and build_dcf_model (lines 86-90, 274-276)
DefaultRiskFreeRate == <<9, 200>>      \* 0.045
DefaultMarketPremium == <<11, 200>>    \* 0.055
DefaultCostOfDebt == <<3, 50>>         \* 0.06
DefaultTaxRate == <<21, 100>>          \* 0.21
DefaultDebtRatio == <<3, 10>>          \* 0.3
DefaultTerminalGrowth == <<1, 40>>     \* 0.025

\* An optional float argument: None, or a value
None == [given |-> FALSE, value |-> Zero]
Some(v) == [given |-> TRUE, value |-> v]

\* What get_ratios_ttm(ticker).get("debtToCapitalRatioTTM", 0.3) gives inside
\* calculate_wacc: the call raises, the field is missing, it is null, or it
\* has a value.
TtmOutcomes ==
    [status : {"raises", "missing", "null"}, value : {Zero}]
        \cup [status : {"value"}, value : {<<1, 2>>}]

DebtWeight_NullAsValue(debt_ratio, has_ticker, ttm) ==
    IF debt_ratio.given THEN debt_ratio.value
    ELSE IF has_ticker
    THEN IF ttm.status \in {"value", "null"} THEN ttm.value ELSE DefaultDebtRatio
    ELSE DefaultDebtRatio

\* The debt weight calculate_wacc uses (lines 109-121)
DebtWeight(debt_ratio, has_ticker, ttm) ==
    IF debt_ratio.given THEN debt_ratio.value
    ELSE IF has_ticker
    THEN IF ttm.status = "value" THEN ttm.value ELSE DefaultDebtRatio
    ELSE DefaultDebtRatio

\* calculate_wacc (lines 84-146)
calculate_wacc(beta, risk_free_rate, market_premium, debt_ratio, cost_of_debt, tax_rate, has_ticker, ttm) ==
    LET debt == DebtWeight(debt_ratio, has_ticker, ttm)
        cost_of_equity == RAdd(risk_free_rate, RMul(beta, market_premium))
        equity_ratio == RSub(One, debt)
        after_tax_cost_of_debt == RMul(cost_of_debt, RSub(One, tax_rate))
    IN [wacc |-> RAdd(RMul(equity_ratio, cost_of_equity),
                      RMul(debt, after_tax_cost_of_debt)),
        cost_of_equity |-> cost_of_equity,
        cost_of_debt |-> cost_of_debt,
        after_tax_cost_of_debt |-> after_tax_cost_of_debt,
        tax_rate |-> tax_rate,
        debt_weight |-> debt,
        equity_weight |-> equity_ratio,
        beta |-> beta,
        risk_free_rate |-> risk_free_rate,
        market_premium |-> market_premium]

RECURSIVE Pow(_, _)
Pow(b, k) == IF k = 0 THEN 1 ELSE b * Pow(b, k - 1)
\* the exact k-th root of a perfect k-th power n >= 0
IRoot(n, k) == CHOOSE p \in 0..n : Pow(p, k) = n
\* r ** (1 / k) for a positive rational r that is a k-th power
RRoot(r, k) == <<IRoot(r[1], k), IRoot(r[2], k)>>

\* _calculate_historical_growth (lines 256-268); values are integers, oldest
\* first
_calculate_historical_growth(values) ==
    IF Len(values) < 2 \/ values[1] <= 0 THEN <<1, 20>>
    ELSE LET years == Len(values) - 1
             ending == values[Len(values)]
             beginning == values[1]
         IN IF beginning <= 0 \/ ending <= 0 THEN <<1, 20>>
            ELSE RSub(RRoot(Rat(ending, beginning), years), One)

Reverse(seq) == [i \in 1..Len(seq) |-> seq[Len(seq) + 1 - i]]
RECURSIVE SelectSeqBy(_, _)
\* the subsequence of the integers of seq that satisfy keep (by sign class)
SelectSeqBy(seq, keep) ==
    IF seq = <<>> THEN <<>>
    ELSE IF (keep = "nonzero" /\ Head(seq) # 0) \/ (keep = "positive" /\ Head(seq) > 0)
         THEN <<Head(seq)>> \o SelectSeqBy(Tail(seq), keep)
         ELSE SelectSeqBy(Tail(seq), keep)

\* historical_fcf (lines 342-352): oldest first, periods with a falsy
\* freeCashFlow left out
HistoricalFcf(cash_flows) ==
    SelectSeqBy(Reverse([i \in 1..Len(cash_flows) |-> cash_flows[i].freeCashFlow]),
                "nonzero")

GrowthRate_ClampsOverride(custom_growth_rate, cash_flows) ==
    LET fcf_values == SelectSeqBy(HistoricalFcf(cash_flows), "positive")
    IN IF custom_growth_rate.given
       THEN RMax(<<-1, 10>>, RMin(custom_growth_rate.value, <<3, 10>>))
       ELSE IF Len(fcf_values) >= 2
       THEN RMax(<<-1, 10>>, RMin(_calculate_historical_growth(fcf_values), <<3, 10>>))
       ELSE <<2, 25>>

\* The growth rate build_dcf_model uses (lines 354-363)
GrowthRate(custom_growth_rate, cash_flows) ==
    LET fcf_values == SelectSeqBy(HistoricalFcf(cash_flows), "positive")
    IN IF custom_growth_rate.given THEN custom_growth_rate.value
       ELSE IF Len(fcf_values) >= 2
       THEN RMax(<<-1, 10>>, RMin(_calculate_historical_growth(fcf_values), <<3, 10>>))
       ELSE <<2, 25>>

\* shares_outstanding (lines 308-312)
ResolveShares(sharesOutstanding, current_price, market_cap) ==
    IF sharesOutstanding = 0 /\ current_price > 0
    THEN IF market_cap # 0 THEN Rat(market_cap, current_price) ELSE Zero
    ELSE RInt(sharesOutstanding)

\* cost_of_debt (lines 320-324)
CostOfDebt(interest_expense, total_debt) ==
    RMax(<<3, 100>>,
         RMin(IF total_debt > 0 THEN Rat(Abs(interest_expense), total_debt)
              ELSE DefaultCostOfDebt,
              <<3, 20>>))

\* tax_rate (lines 326-330); income_before_tax 0 or missing counts as 1
TaxRate(income_before_tax, income_tax) ==
    LET before == IF income_before_tax = 0 THEN 1 ELSE income_before_tax
    IN RMax(Zero,
            RMin(IF before > 0 THEN Rat(income_tax, before) ELSE DefaultTaxRate,
                 <<2, 5>>))

BaseFcf_SignedCapex(latest) ==
    IF latest.freeCashFlow <= 0
    THEN latest.operatingCashFlow - latest.capitalExpenditure
    ELSE latest.freeCashFlow

\* base_fcf once cash_flows is known to be non-empty (lines 366-371)
BaseFcf(latest) ==
    IF latest.freeCashFlow <= 0
    THEN latest.operatingCashFlow - Abs(latest.capitalExpenditure)
    ELSE latest.freeCashFlow

\* wacc_range and growth_range (lines 400-401)
WaccRange(wacc) == <<RSub(wacc, <<1, 50>>), wacc, RAdd(wacc, <<1, 50>>)>>
GrowthRange(g) == <<RSub(g, <<1, 100>>), g, RAdd(g, <<1, 100>>)>>

\* The sensitivity loop (lines 403-414): for each cell, whether
\* calculate_terminal_value raises there.
SensitivityCells(wacc, terminal_growth_rate) ==
    [i \in 1..3 |-> [j \in 1..3 |->
        IF TerminalValueRaises(GrowthRange(terminal_growth_rate)[j], WaccRange(wacc)[i])
        THEN "ValueError" ELSE "value"]]

SensitivityRaises(cells) ==
    \E i \in 1..3 : \E j \in 1..3 : cells[i][j] = "ValueError"

EmptyGrid == [i \in 1..3 |-> [j \in 1..3 |-> "none"]]

NoDcfResult ==
    [current_price |-> 0, upside_percentage |-> "none", wacc |-> Zero,
     cost_of_equity |-> Zero, cost_of_debt |-> Zero, tax_rate |-> Zero,
     debt_weight |-> Zero, equity_weight |-> Zero, projection_years |-> 0,
     revenue_growth_rate |-> Zero, terminal_growth_rate |-> Zero,
     n_projected_fcfs |-> 0, shares_outstanding |-> Zero, net_debt |-> 0,
     base_fcf |-> 0, historical_fcf |-> <<>>, sensitivity_matrix |-> EmptyGrid,
     assumptions |-> [base_fcf |-> 0, revenue_growth_rate |-> Zero,
                      terminal_growth_rate |-> Zero, risk_free_rate |-> Zero,
                      market_premium |-> Zero, beta |-> Zero,
                      projection_years |-> 0]]

DcfRaises(kind, where) ==
    [outcome |-> kind, raised_at |-> where, result |-> NoDcfResult]

\* build_dcf_model (lines 271-450) on the fetched data and parameters of c.
\* The outcome is the DCFResult or the exception that leaves the function.
\* The discounted values themselves (projected flows, terminal value,
\* per-share value) are not carried: only whether computing them raises.
build_dcf_model(c) ==
    LET beta == IF c.beta = Zero THEN One ELSE c.beta
        shares_outstanding ==
            ResolveShares(c.sharesOutstanding, c.price, c.marketCap)
        has_bs == c.balance_sheets # <<>>
        total_debt == IF has_bs THEN c.balance_sheets[1].totalDebt ELSE 0
        cash == IF has_bs THEN c.balance_sheets[1].cashAndCashEquivalents ELSE 0
        net_debt == total_debt - cash
        has_income == c.income_statements # <<>>
        interest_expense ==
            IF has_income THEN c.income_statements[1].interestExpense ELSE 0
        cost_of_debt == CostOfDebt(interest_expense, total_debt)
        tax_rate ==
            IF has_income
            THEN TaxRate(c.income_statements[1].incomeBeforeTax,
                         c.income_statements[1].incomeTaxExpense)
            ELSE TaxRate(0, 0)
        wacc_result ==
            calculate_wacc(beta, c.risk_free_rate, c.market_premium, None,
                           cost_of_debt, tax_rate, TRUE, c.ttm)
        growth_rate == GrowthRate(c.custom_growth_rate, c.cash_flows)
        cells == SensitivityCells(wacc_result.wacc, c.terminal_growth_rate)
    IN IF c.fetch_fails # "none"
       THEN DcfRaises("DataUnavailable", "fetch")                 \* lines 298-302
       ELSE IF c.cash_flows = <<>>
       THEN DcfRaises("IndexError", "base_fcf")                   \* line 369
       ELSE IF c.projection_years = 0
       THEN DcfRaises("IndexError", "terminal_value")             \* line 382
       ELSE IF TerminalValueRaises(c.terminal_growth_rate, wacc_result.wacc)
       THEN DcfRaises("InvalidModelInput", "terminal_value")      \* line 381
       ELSE IF shares_outstanding = Zero
       THEN DcfRaises("ZeroDivisionError", "intrinsic_value")     \* line 245
       ELSE IF SensitivityRaises(cells)
       THEN DcfRaises("InvalidModelInput", "sensitivity_matrix")  \* line 408
       ELSE [outcome |-> "DCFResult", raised_at |-> "none",
             result |->
               [current_price |-> c.price,
                upside_percentage |-> IF c.price > 0 THEN "formula" ELSE "zero",
                wacc |-> wacc_result.wacc,
                cost_of_equity |-> wacc_result.cost_of_equity,
                cost_of_debt |-> cost_of_debt,
                tax_rate |-> tax_rate,
                debt_weight |-> wacc_result.debt_weight,
                equity_weight |-> wacc_result.equity_weight,
                projection_years |-> c.projection_years,
                revenue_growth_rate |-> growth_rate,
                terminal_growth_rate |-> c.terminal_growth_rate,
                n_projected_fcfs |-> c.projection_years,
                shares_outstanding |-> shares_outstanding,
                net_debt |-> net_debt,
                base_fcf |-> BaseFcf(c.cash_flows[1]),
                historical_fcf |-> HistoricalFcf(c.cash_flows),
                sensitivity_matrix |-> cells,
                \* the assumptions dict, lines 416-425
                assumptions |->
                  [base_fcf |-> BaseFcf(c.cash_flows[1]),
                   revenue_growth_rate |-> growth_rate,
                   terminal_growth_rate |-> c.terminal_growth_rate,
                   risk_free_rate |-> c.risk_free_rate,
                   market_premium |-> c.market_premium,
                   beta |-> beta,
                   projection_years |-> c.projection_years]]]

(***************************************************************************)
(* The DCF functions as a specification: Init draws a call, the action      *)
(* applies the function to it.                                             *)
(***************************************************************************)
\* model bound: number of annual periods a fetch returns (the code asks for 5)
MaxPeriods == 2
\* model bound: largest projection_years
MaxYears == 2

SeqsUpTo(S, n) == UNION {[1..k -> S] : k \in 0..n}

NoRet == [outcome |-> "none"]
Applied == ret.outcome # "none"

\* Cash-flow statement records.  freeCashFlow 0 also stands for a missing
\* field.  The positive figures are squares, so that every CAGR over up to two
\* years is rational.
CashFlowRecords ==
    {[freeCashFlow |-> 100, operatingCashFlow |-> 150, capitalExpenditure |-> -50],
     [freeCashFlow |-> 121, operatingCashFlow |-> 160, capitalExpenditure |-> -39],
     [freeCashFlow |-> 144, operatingCashFlow |-> 170, capitalExpenditure |-> -26],
     [freeCashFlow |-> -50, operatingCashFlow |-> 80, capitalExpenditure |-> -30],
     [freeCashFlow |-> 0, operatingCashFlow |-> 20, capitalExpenditure |-> -60]}

BalanceSheets ==
    {<<>>, <<[totalDebt |-> 200, cashAndCashEquivalents |-> 50]>>}
IncomeStatements ==
    {<<>>, <<[interestExpense |-> 12, incomeBeforeTax |-> 100,
              incomeTaxExpense |-> 25]>>}

TerminalValueCalls ==
    [fn : {"calculate_terminal_value"},
     final_fcf : {RInt(-100), Zero, RInt(1), RInt(100)},
     perpetual_growth : {<<-3, 2>>, <<-1, 1>>, <<-1, 100>>, Zero, <<1, 40>>, <<1, 10>>},
     wacc : {<<-1, 50>>, Zero, <<1, 40>>, <<1, 10>>, <<3, 20>>}]

\* Calls of build_dcf_model whose five fetches succeed
BuildDcfFetched ==
    [fn : {"build_dcf_model"}, fetch_fails : {"none"},
     beta : {Zero, <<3, 10>>},
     price : {0, 10}, sharesOutstanding : {0, 50}, marketCap : {0, 500},
     balance_sheets : BalanceSheets,
     income_statements : IncomeStatements,
     cash_flows : SeqsUpTo(CashFlowRecords, MaxPeriods),
     ttm : {t \in TtmOutcomes : t.status \in {"raises", "value"}},
     projection_years : 0..MaxYears,
     terminal_growth_rate : {DefaultTerminalGrowth, <<1, 20>>},
     custom_growth_rate : {None, Some(Zero), Some(<<1, 2>>)},
     risk_free_rate : {DefaultRiskFreeRate},
     market_premium : {DefaultMarketPremium}]

\* Calls one of whose fetches raises or returns nothing
BuildDcfUnfetched ==
    [fn : {"build_dcf_model"},
     fetch_fails : {"profile", "income_statement", "cash_flow", "balance_sheet", "quote"},
     beta : {Zero}, price : {0}, sharesOutstanding : {0}, marketCap : {0},
     balance_sheets : {<<>>}, income_statements : {<<>>}, cash_flows : {<<>>},
     ttm : {t \in TtmOutcomes : t.status = "raises"},
     projection_years : {MaxYears},
     terminal_growth_rate : {DefaultTerminalGrowth},
     custom_growth_rate : {None},
     risk_free_rate : {DefaultRiskFreeRate},
     market_premium : {DefaultMarketPremium}]

Apply_calculate_terminal_value ==
    /\ call.fn = "calculate_terminal_value"
    /\ ~Applied
    /\ ret' = calculate_terminal_value(call.final_fcf, call.perpetual_growth, call.wacc)
    /\ UNCHANGED call
    /\ UNCHANGED wfVars

Apply_build_dcf_model ==
    /\ call.fn = "build_dcf_model"
    /\ ~Applied
    /\ ret' = build_dcf_model(call)
    /\ UNCHANGED call
    /\ UNCHANGED wfVars


(***************************************************************************)
(* Claims about the DCF functions                                          *)
(***************************************************************************)
TerminalValueApplied == call.fn = "calculate_terminal_value" /\ Applied
BuildDcfApplied == call.fn = "build_dcf_model" /\ Applied

\* C6 as stated: calculate_terminal_value fails with an invalid-model-input
\* error whenever WACC <= growth, and for WACC > growth and final cash flow > 0
\* it succeeds with a strictly positive value, for all growth rates.
C6_TerminalValue_AllGrowth ==
    TerminalValueApplied =>
        /\ RLe(call.wacc, call.perpetual_growth) => ret.outcome = "ValueError"
        /\ (RLt(call.perpetual_growth, call.wacc) /\ RLt(Zero, call.final_fcf))
              => (ret.outcome = "ok" /\ RLt(Zero, ret.value))

\* C6 amended: calculate_terminal_value fails whenever WACC <= growth and
\* succeeds whenever WACC > growth; for WACC > growth > -100% and final cash
\* flow > 0 the value is strictly positive.
C6_TerminalValue ==
    TerminalValueApplied =>
        /\ RLe(call.wacc, call.perpetual_growth) => ret.outcome = "ValueError"
        /\ RLt(call.perpetual_growth, call.wacc) => ret.outcome = "ok"
        /\ (RLt(call.perpetual_growth, call.wacc) /\ RLt(Zero, call.final_fcf)
               /\ RLt(<<-1, 1>>, call.perpetual_growth))
              => RLt(Zero, ret.value)

\* A negative growth rate above -100% below a zero WACC, positive cash flow:
\* the call succeeded with a positive value.
C6_Witness ==
    /\ TerminalValueApplied
    /\ call.perpetual_growth = <<-1, 100>>
    /\ call.wacc = Zero
    /\ call.final_fcf = RInt(100)
    /\ ret = [outcome |-> "ok", value |-> RInt(9900)]

\* C7: a sensitivity-grid cell with cell WACC <= cell growth never aborts
\* build_dcf_model: no call ends with the exception raised inside the
\* sensitivity loop.
C7_DegenerateCellNeverAborts ==
    BuildDcfApplied => ret.raised_at # "sensitivity_matrix"

\* C8: build_dcf_model returns a DCFResult, or fails with a data-unavailable
\* failure, or fails with an invalid-model-input failure, whatever the fetched
\* data and parameters.
C8_ThreeOutcomes ==
    BuildDcfApplied =>
        ret.outcome \in {"DCFResult", "DataUnavailable", "InvalidModelInput"}

(***************************************************************************)
(* Customer-based valuation (models/cbcv_model.py)                         *)
(***************************************************************************)
\* An optional int argument: None, or a value
NoInt == [given |-> FALSE, value |-> 0]
AnInt(k) == [given |-> TRUE, value |-> k]

\* int(r) of Python: truncation toward zero
IntTrunc(r) == IF r[1] >= 0 THEN r[1] \div r[2] ELSE -((-r[1]) \div r[2])

\* INDUSTRY_CHURN_RATES[TICKER_INDUSTRY_MAP.get(ticker, "default")]
get_churn_rate_benchmark(ticker) ==
    IF ticker = "NFLX" THEN <<1, 20>> ELSE <<1, 10>>

\* The figures get_cbcv_financial_inputs draws from the fetched data
\* (lines 185-256); a missing field reads as 0.
get_cbcv_financial_inputs(c) ==
    LET has_stmt == c.income_statements # <<>>
        stmt == c.income_statements[1]
        revenue == IF has_stmt THEN stmt.revenue ELSE 0
        gross_margin ==
            IF has_stmt /\ revenue > 0 THEN Rat(stmt.grossProfit, revenue)
            ELSE <<1, 2>>
        sm_expense ==
            IF ~has_stmt THEN Zero
            ELSE IF stmt.sellingAndMarketingExpenses # 0
            THEN RInt(stmt.sellingAndMarketingExpenses)
            ELSE Rat(stmt.sellingGeneralAndAdministrativeExpenses, 2)
        net_debt ==
            IF c.balance_sheets # <<>>
            THEN c.balance_sheets[1].totalDebt
                 - (c.balance_sheets[1].cashAndCashEquivalents
                    + c.balance_sheets[1].shortTermInvestments)
            ELSE 0
        shares_outstanding ==
            IF c.quote.price > 0 /\ c.quote.marketCap > 0
            THEN Rat(c.quote.marketCap, c.quote.price)
            ELSE RInt(c.quote.sharesOutstanding)
        beta == IF c.beta.given THEN c.beta.value ELSE One
        wacc_result == calculate_wacc(beta, DefaultRiskFreeRate, DefaultMarketPremium, None, DefaultCostOfDebt, DefaultTaxRate, TRUE, c.ttm)
    IN [revenue |-> revenue,
        gross_margin |-> gross_margin,
        sm_expense |-> sm_expense,
        shares_outstanding |-> shares_outstanding,
        current_price |-> c.quote.price,
        net_debt |-> net_debt,
        market_cap |-> c.quote.marketCap,
        beta |-> beta,
        wacc |-> wacc_result.wacc]

\* calculate_clv (lines 263-292)
calculate_clv(arpu, gross_margin, retention_rate, discount_rate) ==
    LET r == IF RLe(One, retention_rate) THEN <<99, 100>> ELSE retention_rate
    IN RDiv(RMul(RMul(arpu, gross_margin), r),
            RSub(RAdd(One, discount_rate), r))

\* calculate_cac (lines 295-313)
calculate_cac(sales_marketing_expense, new_customers) ==
    IF new_customers <= 0 THEN Zero
    ELSE RDiv(sales_marketing_expense, RInt(new_customers))

\* The guard of the ARPU derivation (line 514)
ArpuDerivable_CustomersOnly(total_customers, revenue) == total_customers > 0
ArpuDerivable(total_customers, revenue) == total_customers > 0 /\ revenue > 0

NoCbcvResult ==
    [arpu |-> Zero, churn_rate |-> Zero, retention_rate |-> Zero, cac |-> Zero,
     gross_margin |-> Zero, wacc |-> Zero, clv |-> Zero, ltv_cac_ratio |-> "none",
     total_customers |-> 0, new_customers |-> 0, shares_outstanding |-> Zero,
     current_price |-> 0, net_debt |-> 0, market_cap |-> 0,
     intrinsic_value_per_share |-> "none", upside_percentage |-> "none",
     assumptions |-> [arpu |-> Zero, arpu_source |-> "none",
                      churn_rate |-> Zero, churn_source |-> "none",
                      retention_rate |-> Zero,
                      cac |-> Zero, cac_source |-> "none",
                      gross_margin |-> Zero, wacc |-> Zero,
                      projection_years |-> 0, acquisition_decay |-> Zero,
                      tam |-> NoInt]]

CbcvRaises(kind, where) ==
    [outcome |-> kind, raised_at |-> where, result |-> NoCbcvResult]

\* build_cbcv_model (lines 465-643) on the fetched data and arguments of c.
\* The outcome is the CBCVResult or the exception that leaves the function:
\* the fetch layer's ValueError ("DataUnavailable"), the ValueError of line 518
\* ("MissingInput"), or the ZeroDivisionError of line 600.  The customer-equity
\* sums and the per-share value are not carried, only which branch gives the
\* per-share value and the upside.
build_cbcv_model(c) ==
    IF c.fetch_fails # "none" THEN CbcvRaises("DataUnavailable", "fetch")
    ELSE
    LET fin_data == get_cbcv_financial_inputs(c)
        revenue == fin_data.revenue
        total_customers == c.total_customers
    IN
    IF ~c.arpu.given /\ ~ArpuDerivable(total_customers, revenue)
    THEN CbcvRaises("MissingInput", "arpu")
    ELSE
    LET arpu == IF c.arpu.given THEN c.arpu.value
                ELSE Rat(revenue, total_customers)
        churn_rate == IF c.churn_rate.given THEN c.churn_rate.value
                      ELSE get_churn_rate_benchmark(c.ticker)
        retention_rate == RSub(One, churn_rate)
        cac == IF c.cac.given THEN c.cac.value
               ELSE IF c.new_customers.given /\ c.new_customers.value > 0
                       /\ RLt(Zero, fin_data.sm_expense)
               THEN calculate_cac(fin_data.sm_expense, c.new_customers.value)
               ELSE RMul(arpu, fin_data.gross_margin)
        new_customers == IF c.new_customers.given THEN c.new_customers.value
                         ELSE IntTrunc(Rat(total_customers, 10))
        clv == calculate_clv(arpu, fin_data.gross_margin, retention_rate, fin_data.wacc)
    IN
    IF total_customers = 0 THEN CbcvRaises("ZeroDivisionError", "assumptions")
    ELSE
    [outcome |-> "CBCVResult", raised_at |-> "none",
     result |->
        [arpu |-> arpu, churn_rate |-> churn_rate,
         retention_rate |-> retention_rate, cac |-> cac,
         gross_margin |-> fin_data.gross_margin, wacc |-> fin_data.wacc,
         clv |-> clv,
         ltv_cac_ratio |-> IF RLt(Zero, cac) THEN RDiv(clv, cac) ELSE "inf",
         total_customers |-> total_customers,
         new_customers |-> new_customers,
         shares_outstanding |-> fin_data.shares_outstanding,
         current_price |-> fin_data.current_price,
         net_debt |-> fin_data.net_debt,
         market_cap |-> fin_data.market_cap,
         intrinsic_value_per_share |->
            IF RLt(Zero, fin_data.shares_outstanding) THEN "formula" ELSE "zero",
         upside_percentage |->
            IF fin_data.current_price > 0 THEN "formula" ELSE "zero",
         assumptions |->
            [arpu |-> arpu,
             arpu_source |-> IF arpu = Rat(revenue, total_customers)
                             THEN "calculated" ELSE "provided",
             churn_rate |-> churn_rate,
             churn_source |-> IF churn_rate = get_churn_rate_benchmark(c.ticker)
                              THEN "industry_benchmark" ELSE "provided",
             retention_rate |-> retention_rate,
             cac |-> cac,
             cac_source |-> IF new_customers # 0 /\ fin_data.sm_expense # Zero
                            THEN "calculated" ELSE "estimated",
             gross_margin |-> fin_data.gross_margin,
             wacc |-> fin_data.wacc,
             projection_years |-> c.projection_years,
             acquisition_decay |-> <<1, 10>>,
             tam |-> c.tam]]]

CbcvIncomeStatements ==
    {<<>>,
     <<[revenue |-> 1200, grossProfit |-> 960,
        sellingAndMarketingExpenses |-> 300,
        sellingGeneralAndAdministrativeExpenses |-> 400]>>,
     <<[revenue |-> 1200, grossProfit |-> 960,
        sellingAndMarketingExpenses |-> 0,
        sellingGeneralAndAdministrativeExpenses |-> 400]>>,
     <<[revenue |-> 0, grossProfit |-> 0,
        sellingAndMarketingExpenses |-> 0,
        sellingGeneralAndAdministrativeExpenses |-> 0]>>}

CbcvBalanceSheets ==
    {<<>>, <<[totalDebt |-> 200, cashAndCashEquivalents |-> 50,
              shortTermInvestments |-> 50]>>}

\* price, market capitalisation and share count of the quote
QuoteCases ==
    {[price |-> 0, marketCap |-> 0, sharesOutstanding |-> 0],
     [price |-> 10, marketCap |-> 500, sharesOutstanding |-> 0],
     [price |-> 10, marketCap |-> 0, sharesOutstanding |-> 50],
     [price |-> 0, marketCap |-> 500, sharesOutstanding |-> 50]}

\* Calls of build_cbcv_model whose four fetches succeed
BuildCbcvFetched ==
    [fn : {"build_cbcv_model"}, fetch_fails : {"none"},
     ticker : {"NFLX", "ZZZZ"},
     beta : {None, Some(<<3, 10>>)},
     income_statements : CbcvIncomeStatements,
     balance_sheets : CbcvBalanceSheets,
     quote : QuoteCases,
     ttm : {t \in TtmOutcomes : t.status = "raises"},
     total_customers : {-1, 0, 10},
     arpu : {None, Some(RInt(120)), Some(RInt(100))},
     churn_rate : {None, Some(<<1, 10>>)},
     cac : {None, Some(RInt(50))},
     new_customers : {NoInt, AnInt(0), AnInt(5)},
     projection_years : {0, MaxYears},
     tam : {NoInt, AnInt(12)}]

\* Calls one of whose fetches raises
BuildCbcvUnfetched ==
    [fn : {"build_cbcv_model"},
     fetch_fails : {"profile", "income_statement", "balance_sheet", "quote"},
     ticker : {"ZZZZ"}, beta : {None},
     income_statements : {<<>>}, balance_sheets : {<<>>},
     quote : {[price |-> 0, marketCap |-> 0, sharesOutstanding |-> 0]},
     ttm : {t \in TtmOutcomes : t.status = "raises"},
     total_customers : {10}, arpu : {None, Some(RInt(120))},
     churn_rate : {None}, cac : {None}, new_customers : {NoInt},
     projection_years : {MaxYears}, tam : {NoInt}]

Apply_build_cbcv_model ==
    /\ call.fn = "build_cbcv_model"
    /\ ~Applied
    /\ ret' = build_cbcv_model(call)
    /\ UNCHANGED call
    /\ UNCHANGED wfVars


(***************************************************************************)
(* Claims about build_cbcv_model                                           *)
(***************************************************************************)
BuildCbcvApplied == call.fn = "build_cbcv_model" /\ Applied
FetchedRevenue == get_cbcv_financial_inputs(call).revenue

\* C9: with the fetches succeeding and no ARPU supplied, build_cbcv_model
\* fails with the missing-input error and returns no result when
\* total_customers <= 0 or the fetched revenue <= 0, and otherwise returns a
\* result whose ARPU is revenue / total_customers.
C9_ArpuMissingOrDerived ==
    (BuildCbcvApplied /\ call.fetch_fails = "none" /\ ~call.arpu.given) =>
        IF call.total_customers <= 0 \/ FetchedRevenue <= 0
        THEN ret.outcome = "MissingInput" /\ ret.result = NoCbcvResult
        ELSE /\ ret.outcome = "CBCVResult"
             /\ ret.result.arpu = Rat(FetchedRevenue, call.total_customers)
             /\ ret.result.assumptions.arpu = ret.result.arpu

\* No ARPU, customers known but no revenue fetched: the call failed with the
\* missing-input error.
C9_Witness ==
    /\ BuildCbcvApplied
    /\ call.fetch_fails = "none"
    /\ ~call.arpu.given
    /\ call.total_customers = 10
    /\ FetchedRevenue = 0
    /\ ret.outcome = "MissingInput"

\* C10: with the fetches succeeding and ARPU supplied, build_cbcv_model
\* returns a CBCVResult for every total_customers >= 0, every fetched revenue
\* and every share count.
C10_SuppliedArpuAlwaysReturns ==
    (BuildCbcvApplied /\ call.fetch_fails = "none" /\ call.arpu.given
        /\ call.total_customers >= 0)
        => ret.outcome = "CBCVResult"

(***************************************************************************)
(* calculate_future_customer_equity (models/cbcv_model.py lines 360-425)   *)
(***************************************************************************)
\* model bound: largest projection_years of a future-equity call
MaxHorizon == 3

\* r ** k for a rational r and k >= 0
RPow(r, k) == <<Pow(r[1], k), Pow(r[2], k)>>

\* `if tam`: a TAM of None or 0 is falsy
TamSet(tam) == tam.given /\ tam.value # 0

\* int(current_acquisition * ((1 - acquisition_decay) ** (year - 1))), line 408
DecayedAcquisition_ConstantRatio(current_acquisition, acquisition_decay, year) ==
    IF year = 1 THEN current_acquisition
    ELSE IntTrunc(RMul(RInt(current_acquisition), RSub(One, acquisition_decay)))
DecayedAcquisition(current_acquisition, acquisition_decay, year) ==
    IntTrunc(RMul(RInt(current_acquisition),
                  RPow(RSub(One, acquisition_decay), year - 1)))

\* The body of the loop for one year (lines 403-413): the year's acquisition
YearAcquisition(a, year, cumulative_customers, current_acquisition) ==
    LET cur == IF TamSet(a.tam) /\ cumulative_customers >= a.tam.value
               THEN 0 ELSE current_acquisition
        uncapped == DecayedAcquisition(cur, a.acquisition_decay, year)
        capped == IF uncapped < a.tam.value - cumulative_customers
                  THEN uncapped ELSE a.tam.value - cumulative_customers
    IN IF TamSet(a.tam) THEN (IF capped < 0 THEN 0 ELSE capped) ELSE uncapped

RECURSIVE FutureEquityLoop(_, _, _, _, _, _)
\* The loop from `year` on, with the loop variables as they stand
FutureEquityLoop(a, year, cumulative_customers, current_acquisition, total_future_equity, projected_acquisitions) ==
    IF year > a.projection_years
    THEN [outcome |-> "ok", future_equity |-> total_future_equity,
          projected_acquisitions |-> projected_acquisitions]
    ELSE LET year_acquisition ==
                 YearAcquisition(a, year, cumulative_customers, current_acquisition)
             year_value == RMul(RInt(year_acquisition), RSub(a.clv, a.cac))
             pv == RDiv(year_value, RPow(RAdd(One, a.discount_rate), year))
         IN FutureEquityLoop(a, year + 1,
                             cumulative_customers + year_acquisition,
                             year_acquisition,
                             RAdd(total_future_equity, pv),
                             Append(projected_acquisitions, year_acquisition))

\* Whether the function takes the early return of lines 391-393
ValueDestroying_Strict(clv, cac) == RLt(clv, cac)
ValueDestroying(clv, cac) == RLe(clv, cac)

calculate_future_customer_equity(a) ==
    IF ValueDestroying(a.clv, a.cac)
    THEN [outcome |-> "ok", future_equity |-> Zero,
          projected_acquisitions |->
              [i \in 1..(IF a.projection_years > 0 THEN a.projection_years ELSE 0) |-> 0]]
    ELSE FutureEquityLoop(a, 1, a.current_customers, a.annual_new_customers, Zero, <<>>)

FutureEquityCalls ==
    [fn : {"calculate_future_customer_equity"},
     annual_new_customers : {-3, 0, 5, 10, 100},
     clv : {RInt(10)},
     cac : {RInt(5), RInt(10), RInt(20)},
     discount_rate : {Zero, <<1, 4>>},
     projection_years : 0..MaxHorizon,
     acquisition_decay : {Zero, <<1, 10>>, <<1, 2>>},
     tam : {NoInt, AnInt(0), AnInt(12), AnInt(120)},
     current_customers : {0, 10, 15}]

Apply_calculate_future_customer_equity ==
    /\ call.fn = "calculate_future_customer_equity"
    /\ ~Applied
    /\ ret' = calculate_future_customer_equity(call)
    /\ UNCHANGED call
    /\ UNCHANGED wfVars

(***************************************************************************)
(* Claims about calculate_future_customer_equity                           *)
(***************************************************************************)
FutureEquityApplied == call.fn = "calculate_future_customer_equity" /\ Applied

RECURSIVE SumFirst(_, _)
\* seq[1] + ... + seq[k]
SumFirst(seq, k) == IF k = 0 THEN 0 ELSE SumFirst(seq, k - 1) + seq[k]

\* C11: whenever CLV <= CAC (equality included) calculate_future_customer_equity
\* returns future equity exactly 0 and a list of projection_years zeros,
\* whatever the decay, TAM and starting customer count.
C11_NoValueNoAcquisition ==
    (FutureEquityApplied /\ RLe(call.clv, call.cac)) =>
        /\ ret.outcome = "ok"
        /\ ret.future_equity = Zero
        /\ Len(ret.projected_acquisitions) = call.projection_years
        /\ \A i \in 1..Len(ret.projected_acquisitions) :
              ret.projected_acquisitions[i] = 0

\* CLV equal to CAC, a positive acquisition rate and the longest horizon
C11_Witness ==
    /\ FutureEquityApplied
    /\ call.clv = call.cac
    /\ call.annual_new_customers = 100
    /\ call.projection_years = MaxHorizon
    /\ ret.future_equity = Zero
    /\ Len(ret.projected_acquisitions) = MaxHorizon

\* C12: when a TAM is supplied, every projected year's acquisition is >= 0 and
\* the cumulative customer count after it (current_customers plus the
\* acquisitions so far) is <= TAM.
C12_CumulativeWithinTam ==
    (FutureEquityApplied /\ call.tam.given) =>
        \A k \in 1..Len(ret.projected_acquisitions) :
            /\ ret.projected_acquisitions[k] >= 0
            /\ call.current_customers + SumFirst(ret.projected_acquisitions, k)
                  <= call.tam.value

\* The acquisition the claimed rule gives for year t from the returned
\* trajectory: annual_new_customers in year 1, afterwards the prior year's
\* actual acquisition times (1 - decay) truncated, under the TAM cap.
ConstantRatioAcquisition(t) ==
    LET acq == ret.projected_acquisitions
        cumulative == call.current_customers + SumFirst(acq, t - 1)
        uncapped == IF t = 1 THEN call.annual_new_customers
                    ELSE IntTrunc(RMul(RInt(acq[t - 1]),
                                       RSub(One, call.acquisition_decay)))
        room == call.tam.value - cumulative
        capped == IF uncapped < room THEN uncapped ELSE room
    IN IF TamSet(call.tam) THEN (IF capped < 0 THEN 0 ELSE capped) ELSE uncapped

\* C13: with CLV > CAC, year 1's acquisition is annual_new_customers and every
\* later year's is the prior year's actual acquisition times (1 - decay),
\* truncated, each subject to the TAM cap.
C13_ConstantGeometricRatio ==
    (FutureEquityApplied /\ RLt(call.cac, call.clv)) =>
        \A t \in 1..Len(ret.projected_acquisitions) :
            ret.projected_acquisitions[t] = ConstantRatioAcquisition(t)

(***************************************************************************)
(* project_free_cash_flows (models/dcf_model.py lines 149-181)             *)
(***************************************************************************)
\* model bound: longest list of growth rates
MaxRates == 3

\* growth_rates: a single number or a list
SingleRate(r) == [kind |-> "single", rate |-> r, rates |-> <<>>]
RateList(rs) == [kind |-> "list", rate |-> Zero, rates |-> rs]

\* The list after lines 165-172; called only when the padding does not read
\* the last element of an empty list
PaddedRates(growth_rates, years) ==
    LET rs == IF growth_rates.kind = "single"
              THEN [i \in 1..years |-> growth_rates.rate]
              ELSE growth_rates.rates
    IN IF Len(rs) < years
       THEN rs \o [i \in 1..(years - Len(rs)) |-> rs[Len(rs)]]
       ELSE rs

RECURSIVE Compound(_, _, _)
\* the first k projected values (lines 174-179)
Compound(base_fcf, rates, k) ==
    IF k = 0 THEN <<>>
    ELSE LET before == Compound(base_fcf, rates, k - 1)
             current_fcf == IF k = 1 THEN base_fcf ELSE before[k - 1]
         IN Append(before, RMul(current_fcf, RAdd(One, rates[k])))

\* growth_rates[-1] of an empty list (line 170) raises IndexError
project_free_cash_flows(base_fcf, growth_rates, years) ==
    IF growth_rates.kind = "list" /\ growth_rates.rates = <<>> /\ years > 0
    THEN [outcome |-> "IndexError", projected |-> <<>>]
    ELSE [outcome |-> "ok",
          projected |-> Compound(base_fcf, PaddedRates(growth_rates, years), years)]

ProjectionRates == {<<-1, 2>>, Zero, <<1, 10>>}

ProjectionCalls ==
    [fn : {"project_free_cash_flows"},
     base_fcf : {RInt(-100), Zero, RInt(100)},
     growth_rates : {SingleRate(r) : r \in ProjectionRates}
                       \cup {RateList(rs) : rs \in SeqsUpTo(ProjectionRates, MaxRates)},
     years : 0..MaxYears]

Apply_project_free_cash_flows ==
    /\ call.fn = "project_free_cash_flows"
    /\ ~Applied
    /\ ret' = project_free_cash_flows(call.base_fcf, call.growth_rates, call.years)
    /\ UNCHANGED call
    /\ UNCHANGED wfVars

ProjectionApplied == call.fn = "project_free_cash_flows" /\ Applied

\* The rate the claim gives year i: the single rate, the i-th rate of the
\* list, or the last rate of a list shorter than i
ClaimedRate(i) ==
    IF call.growth_rates.kind = "single" THEN call.growth_rates.rate
    ELSE IF i <= Len(call.growth_rates.rates) THEN call.growth_rates.rates[i]
    ELSE call.growth_rates.rates[Len(call.growth_rates.rates)]

\* C14: project_free_cash_flows returns exactly `years` values for every base,
\* single rate and rate list of any length, with value[1] = base * (1 + rate[1])
\* and value[i] = value[i-1] * (1 + rate[i]), a short list being padded with its
\* last rate.
C14_ProjectionCompounds ==
    ProjectionApplied =>
        /\ ret.outcome = "ok"
        /\ Len(ret.projected) = call.years
        /\ \A i \in 1..call.years :
              ret.projected[i] =
                  RMul(IF i = 1 THEN call.base_fcf ELSE ret.projected[i - 1],
                       RAdd(One, ClaimedRate(i)))

(***************************************************************************)
(* Claims about the inputs build_dcf_model selects                         *)
(***************************************************************************)
DcfReturned == BuildDcfApplied /\ ret.outcome = "DCFResult"

\* Positive free cash flows of the fetched periods, last fetched period first
PositiveFcfHistory ==
    SelectSeqBy(Reverse([i \in 1..Len(call.cash_flows) |->
                            call.cash_flows[i].freeCashFlow]), "positive")

\* (ending / beginning) ** (1 / years) - 1 over the positive history
HistoryCagr ==
    LET h == PositiveFcfHistory
    IN RSub(RRoot(Rat(h[Len(h)], h[1]), Len(h) - 1), One)

\* C15: the growth rate of a returned DCFResult is the caller's override
\* whenever one is supplied (unclamped, 0 included); otherwise, with at least
\* two positive free cash flows in the history, their CAGR clamped to
\* [-10%, +30%]; otherwise exactly 8%.
C15_GrowthTiers ==
    DcfReturned =>
        ret.result.revenue_growth_rate =
            IF call.custom_growth_rate.given THEN call.custom_growth_rate.value
            ELSE IF Len(PositiveFcfHistory) >= 2
            THEN (IF RLt(HistoryCagr, <<-1, 10>>) THEN <<-1, 10>>
                  ELSE IF RLt(<<3, 10>>, HistoryCagr) THEN <<3, 10>>
                  ELSE HistoryCagr)
            ELSE <<2, 25>>

\* An override of 50%, above the clamp range, over a history that has a CAGR:
\* the result carries 50%.
C15_Witness ==
    /\ DcfReturned
    /\ call.custom_growth_rate = Some(<<1, 2>>)
    /\ Len(PositiveFcfHistory) >= 2
    /\ ret.result.revenue_growth_rate = <<1, 2>>

RoundHundredths(x) ==
    LET scaled == RAdd(RMul(x, RInt(100)), <<1, 2>>)
        floor == IF scaled[1] >= 0 THEN scaled[1] \div scaled[2]
                 ELSE -(((-scaled[1]) + scaled[2] - 1) \div scaled[2])
    IN Rat(floor, 100)

\* The list is taken as newest first and reversed (line 549); revenues that
\* are 0 or missing are dropped; fewer than two give 5.0
calculate_revenue_growth_pct(income_statements) ==
    LET revenues ==
            SelectSeqBy(Reverse([i \in 1..Len(income_statements) |->
                                    income_statements[i].revenue]), "positive")
        years == Len(revenues) - 1
    IN IF Len(revenues) < 2 THEN RInt(5)
       ELSE RoundHundredths(
                RMul(RSub(RRoot(Rat(revenues[Len(revenues)], revenues[1]), years), One),
                     RInt(100)))

RevenueRecords == {[revenue |-> 0], [revenue |-> 100], [revenue |-> 121], [revenue |-> 144]}

RevenueGrowthCalls ==
    [fn : {"calculate_revenue_growth_pct"},
     income_statements : SeqsUpTo(RevenueRecords, MaxPeriods)]

Apply_calculate_revenue_growth_pct ==
    /\ call.fn = "calculate_revenue_growth_pct"
    /\ ~Applied
    /\ ret' = [outcome |-> "ok", value |-> calculate_revenue_growth_pct(call.income_statements)]
    /\ UNCHANGED call
    /\ UNCHANGED wfVars

RevenueGrowthApplied == call.fn = "calculate_revenue_growth_pct" /\ Applied

\* The same build_dcf_model call with every fetched statement list in the
\* opposite order
ReversedCall ==
    [call EXCEPT !.cash_flows = Reverse(@),
                 !.balance_sheets = Reverse(@),
                 !.income_statements = Reverse(@)]

\* C17: build_dcf_model (growth rate, base cash flow, net debt) and
\* calculate_revenue_growth_pct give the same result whether the fetched
\* statement list is newest-first or oldest-first.
C17_OrderNormalized ==
    /\ DcfReturned =>
          LET other == build_dcf_model(ReversedCall)
          IN /\ other.outcome = "DCFResult"
             /\ other.result.revenue_growth_rate = ret.result.revenue_growth_rate
             /\ other.result.base_fcf = ret.result.base_fcf
             /\ other.result.net_debt = ret.result.net_debt
    /\ RevenueGrowthApplied =>
          ret.value = calculate_revenue_growth_pct(Reverse(call.income_statements))

\* C18: in a returned DCFResult the upside is the formula
\* (intrinsic - current_price) / current_price * 100 when current_price > 0
\* and null, not a number, when current_price <= 0.
C18_UpsideNullWithoutPrice ==
    DcfReturned =>
        ret.result.upside_percentage =
            IF call.price > 0 THEN "formula" ELSE "null"

(***************************************************************************)
(* calculate_clv as a call (models/cbcv_model.py lines 263-292)            *)
(***************************************************************************)
ClvCalls ==
    [fn : {"calculate_clv"},
     arpu : {Zero, RInt(120)},
     gross_margin : {<<1, 2>>, <<4, 5>>},
     retention_rate : {Zero, <<1, 2>>, <<9, 10>>, <<99, 100>>, <<199, 200>>,
                       One, <<11, 10>>},
     discount_rate : {Zero, <<1, 10>>}]

Apply_calculate_clv ==
    /\ call.fn = "calculate_clv"
    /\ ~Applied
    /\ ret' = [outcome |-> "ok",
               value |-> calculate_clv(call.arpu, call.gross_margin,
                                       call.retention_rate, call.discount_rate)]
    /\ UNCHANGED call
    /\ UNCHANGED wfVars

ClvApplied == call.fn = "calculate_clv" /\ Applied

\* C19: calculate_clv returns (ARPU * gross_margin) * r / (1 + discount_rate - r)
\* where r is the input retention clamped to at most 0.99, and for
\* discount_rate >= 0 the denominator is positive.
C19_RetentionClampedAt99 ==
    (ClvApplied /\ RLe(Zero, call.discount_rate)) =>
        LET r == IF RLt(<<99, 100>>, call.retention_rate) THEN <<99, 100>>
                 ELSE call.retention_rate
            denominator == RSub(RAdd(One, call.discount_rate), r)
        IN /\ RLt(Zero, denominator)
           /\ ret.value = RDiv(RMul(RMul(call.arpu, call.gross_margin), r),
                               denominator)

(***************************************************************************)
(* build_sensitivity_matrix (models/cbcv_model.py lines 428-458)           *)
(***************************************************************************)
\* retention_variations and arpu_variations (lines 441-442)
retention_variations == <<(<<-1, 20>>), (<<-1, 40>>), Zero, (<<1, 40>>), (<<1, 20>>)>>
arpu_variations == <<(<<-1, 5>>), (<<-1, 10>>), Zero, (<<1, 10>>), (<<1, 5>>)>>

\* min(0.99, max(0.5, base_retention + ret_delta)), line 447
TestRetention(base_retention, ret_delta) ==
    RMin(<<99, 100>>, RMax(<<1, 2>>, RAdd(base_retention, ret_delta)))

\* The number a "{x:.1%}" key shows, in tenths of a percent (x >= 0)
PercentKey(x) ==
    LET scaled == RAdd(RMul(x, RInt(1000)), <<1, 2>>)
    IN scaled[1] \div scaled[2]

\* The number a "{x:+.0%} ARPU" key shows, in percent
ArpuKey(x) ==
    LET scaled == RAdd(RMul(x, RInt(100)), <<1, 2>>)
    IN IF scaled[1] >= 0 THEN scaled[1] \div scaled[2]
       ELSE -(((-scaled[1]) + scaled[2] - 1) \div scaled[2])

\* The nested dict: a later row with the key of an earlier one replaces it
build_sensitivity_matrix(base_clv, arpu, gross_margin, base_retention, discount_rate) ==
    LET row_keys == {PercentKey(TestRetention(base_retention, retention_variations[i])) : i \in 1..5}
        col_keys == {ArpuKey(arpu_variations[j]) : j \in 1..5}
        last_row(k) == CHOOSE i \in 1..5 :
                          /\ PercentKey(TestRetention(base_retention, retention_variations[i])) = k
                          /\ \A i2 \in 1..5 :
                                PercentKey(TestRetention(base_retention, retention_variations[i2])) = k
                                    => i2 <= i
        last_col(k) == CHOOSE j \in 1..5 : ArpuKey(arpu_variations[j]) = k
    IN [k \in row_keys |-> [a \in col_keys |->
           RoundHundredths(
               calculate_clv(RMul(arpu, RAdd(One, arpu_variations[last_col(a)])),
                             gross_margin,
                             TestRetention(base_retention, retention_variations[last_row(k)]),
                             discount_rate))]]

SensitivityMatrixCalls ==
    [fn : {"build_sensitivity_matrix"},
     base_clv : {Zero},
     arpu : {RInt(100), RInt(120)},
     gross_margin : {<<1, 2>>, <<4, 5>>},
     base_retention : {Zero, <<9, 20>>, <<1, 2>>, <<21, 40>>, <<3, 4>>, <<9, 10>>,
                       <<19, 20>>, <<97, 100>>, One},
     discount_rate : {Zero, <<1, 10>>}]

Apply_build_sensitivity_matrix ==
    /\ call.fn = "build_sensitivity_matrix"
    /\ ~Applied
    /\ ret' = [outcome |-> "ok",
               matrix |-> build_sensitivity_matrix(call.base_clv, call.arpu,
                              call.gross_margin, call.base_retention,
                              call.discount_rate)]
    /\ UNCHANGED call
    /\ UNCHANGED wfVars

SensitivityMatrixApplied == call.fn = "build_sensitivity_matrix" /\ Applied

\* C20: for every base retention in [0, 1] build_sensitivity_matrix returns
\* exactly 5 retention rows of exactly 5 ARPU columns each, 25 cells, and the
\* same table for the same inputs.
C20_FiveByFive ==
    (SensitivityMatrixApplied /\ RLe(Zero, call.base_retention)
        /\ RLe(call.base_retention, One)) =>
        /\ Cardinality(DOMAIN ret.matrix) = 5
        /\ \A k \in DOMAIN ret.matrix : Cardinality(DOMAIN ret.matrix[k]) = 5
        /\ ret.matrix = build_sensitivity_matrix(call.base_clv, call.arpu,
                            call.gross_margin, call.base_retention,
                            call.discount_rate)

(***************************************************************************)
(* calculate_intrinsic_value (models/dcf_model.py lines 208-253)           *)
(***************************************************************************)
RECURSIVE RSum(_)
\* sum(seq) of a list of rationals
RSum(seq) == IF seq = <<>> THEN Zero ELSE RAdd(Head(seq), RSum(Tail(seq)))

\* pv_terminal (lines 234-235): the terminal value discounted at final_year
PvTerminal_YearAfter(terminal_value, wacc, final_year) ==
    RDiv(terminal_value, RPow(RAdd(One, wacc), final_year + 1))
PvTerminal(terminal_value, wacc, final_year) ==
    RDiv(terminal_value, RPow(RAdd(One, wacc), final_year))

\* Division by a shares_outstanding of 0 (line 245) raises ZeroDivisionError
calculate_intrinsic_value(projected_fcfs, terminal_value, wacc, shares_outstanding, net_debt) ==
    LET pv_fcfs == [i \in 1..Len(projected_fcfs) |->
                       RDiv(projected_fcfs[i], RPow(RAdd(One, wacc), i))]
        pv_terminal == PvTerminal(terminal_value, wacc, Len(projected_fcfs))
        enterprise_value == RAdd(RSum(pv_fcfs), pv_terminal)
        equity_value == RSub(enterprise_value, net_debt)
    IN IF shares_outstanding = Zero
       THEN [outcome |-> "ZeroDivisionError", pv_fcfs |-> pv_fcfs,
             pv_terminal_value |-> pv_terminal,
             enterprise_value |-> enterprise_value,
             equity_value |-> equity_value,
             intrinsic_value_per_share |-> Zero]
       ELSE [outcome |-> "ok", pv_fcfs |-> pv_fcfs,
             pv_terminal_value |-> pv_terminal,
             enterprise_value |-> enterprise_value,
             equity_value |-> equity_value,
             intrinsic_value_per_share |-> RDiv(equity_value, shares_outstanding)]

IntrinsicValueCalls ==
    [fn : {"calculate_intrinsic_value"},
     projected_fcfs : SeqsUpTo({RInt(-55), RInt(110), RInt(121)}, MaxYears),
     terminal_value : {Zero, RInt(1331)},
     wacc : {Zero, <<1, 10>>, <<1, 4>>},
     shares_outstanding : {Zero, RInt(50)},
     net_debt : {RInt(-50), Zero, RInt(200)}]

Apply_calculate_intrinsic_value ==
    /\ call.fn = "calculate_intrinsic_value"
    /\ ~Applied
    /\ ret' = calculate_intrinsic_value(call.projected_fcfs, call.terminal_value,
                  call.wacc, call.shares_outstanding, call.net_debt)
    /\ UNCHANGED call
    /\ UNCHANGED wfVars

IntrinsicValueApplied == call.fn = "calculate_intrinsic_value" /\ Applied

RECURSIVE DiscountedThrough(_)
\* fcf[1]/(1+WACC)^1 + ... + fcf[k]/(1+WACC)^k of the call
DiscountedThrough(k) ==
    IF k = 0 THEN Zero
    ELSE RAdd(DiscountedThrough(k - 1),
              RMul(call.projected_fcfs[k],
                   RPow(RDiv(One, RAdd(One, call.wacc)), k)))

\* C21: for shares_outstanding # 0, calculate_intrinsic_value returns the
\* per-share value (sum over k = 1..N of fcf[k]/(1+WACC)^k
\* + terminal_value/(1+WACC)^N - net_debt) / shares_outstanding, and the
\* enterprise value is the discounted sum before net debt is subtracted.
C21_IntrinsicValue ==
    (IntrinsicValueApplied /\ call.shares_outstanding # Zero) =>
        LET N == Len(call.projected_fcfs)
            discounted == RAdd(DiscountedThrough(N),
                               RMul(call.terminal_value,
                                    RPow(RDiv(One, RAdd(One, call.wacc)), N)))
        IN /\ ret.outcome = "ok"
           /\ ret.enterprise_value = discounted
           /\ ret.intrinsic_value_per_share =
                  RDiv(RSub(discounted, call.net_debt), call.shares_outstanding)

\* Flows 110 and 121 and terminal value 1331 at WACC 10%, net debt 200, 50
\* shares: (100 + 100 + 1100 - 200) / 50 = 22
C21_Witness ==
    /\ IntrinsicValueApplied
    /\ call.projected_fcfs = <<RInt(110), RInt(121)>>
    /\ call.terminal_value = RInt(1331)
    /\ call.wacc = <<1, 10>>
    /\ call.net_debt = RInt(200)
    /\ call.shares_outstanding = RInt(50)
    /\ ret.enterprise_value = RInt(1300)
    /\ ret.intrinsic_value_per_share = RInt(22)

(***************************************************************************)
(* Claims about the assumptions mapping of the results                     *)
(***************************************************************************)
CbcvReturned == BuildCbcvApplied /\ ret.outcome = "CBCVResult"

\* C22: every numeric assumption that enters the calculation is a key of the
\* returned result's assumptions mapping, with the value actually used: for a
\* DCFResult the debt ratio, cost of debt, tax rate, beta, growth and rate
\* inputs; for a CBCVResult ARPU, churn, CAC, gross margin, WACC, decay, TAM
\* and the annual new-customer count used for the projection.
C22_AssumptionsRecorded ==
    /\ DcfReturned =>
          /\ {"debt_weight", "cost_of_debt", "tax_rate", "beta",
              "revenue_growth_rate", "terminal_growth_rate", "risk_free_rate",
              "market_premium"} \subseteq DOMAIN ret.result.assumptions
          /\ ret.result.assumptions.debt_weight = ret.result.debt_weight
          /\ ret.result.assumptions.cost_of_debt = ret.result.cost_of_debt
          /\ ret.result.assumptions.tax_rate = ret.result.tax_rate
          /\ ret.result.assumptions.revenue_growth_rate = ret.result.revenue_growth_rate
    /\ CbcvReturned =>
          /\ {"arpu", "churn_rate", "cac", "gross_margin", "wacc",
              "acquisition_decay", "tam", "new_customers"}
                 \subseteq DOMAIN ret.result.assumptions
          /\ ret.result.assumptions.arpu = ret.result.arpu
          /\ ret.result.assumptions.churn_rate = ret.result.churn_rate
          /\ ret.result.assumptions.cac = ret.result.cac
          /\ ret.result.assumptions.gross_margin = ret.result.gross_margin
          /\ ret.result.assumptions.wacc = ret.result.wacc
          /\ ret.result.assumptions.new_customers = ret.result.new_customers

(***************************************************************************)
(* calculate_wacc as a call (models/dcf_model.py lines 84-146)             *)
(***************************************************************************)
\* Whether get_ratios_ttm is called (lines 109-112)
LeverageFetched(debt_ratio, has_ticker) == ~debt_ratio.given /\ has_ticker

WaccCalls ==
    [fn : {"calculate_wacc"},
     beta : {<<3, 10>>, One},
     risk_free_rate : {DefaultRiskFreeRate},
     market_premium : {DefaultMarketPremium},
     debt_ratio : {None, Some(Zero), Some(<<2, 5>>)},
     cost_of_debt : {DefaultCostOfDebt},
     tax_rate : {DefaultTaxRate, Zero},
     has_ticker : BOOLEAN,
     ttm : TtmOutcomes]

Apply_calculate_wacc ==
    /\ call.fn = "calculate_wacc"
    /\ ~Applied
    /\ ret' = [outcome |-> "ok",
               fetched |-> LeverageFetched(call.debt_ratio, call.has_ticker),
               result |-> calculate_wacc(call.beta, call.risk_free_rate, call.market_premium, call.debt_ratio, call.cost_of_debt, call.tax_rate, call.has_ticker, call.ttm)]
    /\ UNCHANGED call
    /\ UNCHANGED wfVars

WaccApplied == call.fn = "calculate_wacc" /\ Applied

\* C23: calculate_wacc always returns; its debt weight is the caller's
\* debt_ratio when supplied (no fetch is made then), otherwise the fetched
\* debt-to-capital ratio when a ticker is given and the fetch yields a non-null
\* value, otherwise exactly 0.30; the equity weight is 1 - debt weight.
C23_LeverageFallback ==
    WaccApplied =>
        /\ ret.outcome = "ok"
        /\ call.debt_ratio.given =>
              (ret.result.debt_weight = call.debt_ratio.value /\ ~ret.fetched)
        /\ (~call.debt_ratio.given /\ call.has_ticker /\ call.ttm.status = "value")
              => ret.result.debt_weight = call.ttm.value
        /\ (~call.debt_ratio.given
              /\ (~call.has_ticker \/ call.ttm.status \in {"raises", "missing", "null"}))
              => ret.result.debt_weight = <<3, 10>>
        /\ ret.result.equity_weight = RSub(One, ret.result.debt_weight)

\* The fetch returned a null ratio: the weights are 0.30 and 0.70
C23_Witness ==
    /\ WaccApplied
    /\ ~call.debt_ratio.given
    /\ call.has_ticker
    /\ call.ttm.status = "null"
    /\ ret.fetched
    /\ ret.result.debt_weight = <<3, 10>>
    /\ ret.result.equity_weight = <<7, 10>>

(***************************************************************************)
(* Country tables and their lookups (models/dcf_model.py lines 459-526 and *)
(* 626-680; functions/main.py lines 32-99 and 190-209).  A string is the   *)
(* sequence of its characters.                                             *)
(***************************************************************************)
UpperLetters == <<"A", "B", "C", "D", "E", "F", "G", "H", "I", "J", "K", "L", "M", "N", "O", "P", "Q", "R", "S", "T", "U", "V", "W", "X", "Y", "Z">>
LowerLetters == <<"a", "b", "c", "d", "e", "f", "g", "h", "i", "j", "k", "l", "m", "n", "o", "p", "q", "r", "s", "t", "u", "v", "w", "x", "y", "z">>

\* str.lower() on one character and on a string (lines 643, 645)
LowerChar(c) ==
    IF \E i \in DOMAIN UpperLetters : UpperLetters[i] = c
    THEN LowerLetters[CHOOSE i \in DOMAIN UpperLetters : UpperLetters[i] = c]
    ELSE c
lower(s) == [i \in DOMAIN s |-> LowerChar(s[i])]

UpperChar(c) ==
    IF \E i \in DOMAIN LowerLetters : LowerLetters[i] = c
    THEN UpperLetters[CHOOSE i \in DOMAIN LowerLetters : LowerLetters[i] = c]
    ELSE c
upper(s) == [i \in DOMAIN s |-> UpperChar(s[i])]

UnitedStates == <<"U", "n", "i", "t", "e", "d", " ", "S", "t", "a", "t", "e", "s">>

\* models/dcf_model.py lines 459-492
COUNTRY_EQUITY_RISK_PREMIUMS ==
    <<
       [key |-> <<"U", "n", "i", "t", "e", "d", " ", "S", "t", "a", "t", "e", "s">>, value |-> <<223, 50>>],
       [key |-> <<"C", "a", "n", "a", "d", "a">>, value |-> <<423, 100>>],
       [key |-> <<"U", "n", "i", "t", "e", "d", " ", "K", "i", "n", "g", "d", "o", "m">>, value |-> <<501, 100>>],
       [key |-> <<"G", "e", "r", "m", "a", "n", "y">>, value |-> <<423, 100>>],
       [key |-> <<"F", "r", "a", "n", "c", "e">>, value |-> <<501, 100>>],
       [key |-> <<"J", "a", "p", "a", "n">>, value |-> <<257, 50>>],
       [key |-> <<"C", "h", "i", "n", "a">>, value |-> <<257, 50>>],
       [key |-> <<"T", "a", "i", "w", "a", "n">>, value |-> <<501, 100>>],
       [key |-> <<"K", "o", "r", "e", "a">>, value |-> <<487, 100>>],
       [key |-> <<"I", "n", "d", "i", "a">>, value |-> <<177, 25>>],
       [key |-> <<"B", "r", "a", "z", "i", "l">>, value |-> <<747, 100>>],
       [key |-> <<"A", "u", "s", "t", "r", "a", "l", "i", "a">>, value |-> <<423, 100>>],
       [key |-> <<"S", "i", "n", "g", "a", "p", "o", "r", "e">>, value |-> <<423, 100>>],
       [key |-> <<"H", "o", "n", "g", " ", "K", "o", "n", "g">>, value |-> <<501, 100>>],
       [key |-> <<"N", "e", "t", "h", "e", "r", "l", "a", "n", "d", "s">>, value |-> <<423, 100>>],
       [key |-> <<"S", "w", "i", "t", "z", "e", "r", "l", "a", "n", "d">>, value |-> <<423, 100>>],
       [key |-> <<"S", "w", "e", "d", "e", "n">>, value |-> <<423, 100>>],
       [key |-> <<"N", "o", "r", "w", "a", "y">>, value |-> <<423, 100>>],
       [key |-> <<"D", "e", "n", "m", "a", "r", "k">>, value |-> <<423, 100>>],
       [key |-> <<"F", "i", "n", "l", "a", "n", "d">>, value |-> <<459, 100>>],
       [key |-> <<"I", "r", "e", "l", "a", "n", "d">>, value |-> <<501, 100>>],
       [key |-> <<"I", "s", "r", "a", "e", "l">>, value |-> <<63, 10>>],
       [key |-> <<"M", "e", "x", "i", "c", "o">>, value |-> <<669, 100>>],
       [key |-> <<"S", "o", "u", "t", "h", " ", "A", "f", "r", "i", "c", "a">>, value |-> <<813, 100>>],
       [key |-> <<"R", "u", "s", "s", "i", "a">>, value |-> <<813, 100>>],
       [key |-> <<"T", "u", "r", "k", "e", "y">>, value |-> <<503, 50>>],
       [key |-> <<"A", "r", "g", "e", "n", "t", "i", "n", "a">>, value |-> <<697, 50>>],
       [key |-> <<"I", "n", "d", "o", "n", "e", "s", "i", "a">>, value |-> <<669, 100>>],
       [key |-> <<"M", "a", "l", "a", "y", "s", "i", "a">>, value |-> <<289, 50>>],
       [key |-> <<"T", "h", "a", "i", "l", "a", "n", "d">>, value |-> <<63, 10>>],
       [key |-> <<"P", "h", "i", "l", "i", "p", "p", "i", "n", "e", "s">>, value |-> <<669, 100>>],
       [key |-> <<"V", "i", "e", "t", "n", "a", "m">>, value |-> <<813, 100>>]
    >>

\* models/dcf_model.py lines 495-526
COUNTRY_GDP_GROWTH ==
    <<
       [key |-> <<"U", "n", "i", "t", "e", "d", " ", "S", "t", "a", "t", "e", "s">>, value |-> <<5, 2>>],
       [key |-> <<"C", "a", "n", "a", "d", "a">>, value |-> <<2, 1>>],
       [key |-> <<"U", "n", "i", "t", "e", "d", " ", "K", "i", "n", "g", "d", "o", "m">>, value |-> <<3, 2>>],
       [key |-> <<"G", "e", "r", "m", "a", "n", "y">>, value |-> <<3, 2>>],
       [key |-> <<"F", "r", "a", "n", "c", "e">>, value |-> <<3, 2>>],
       [key |-> <<"J", "a", "p", "a", "n">>, value |-> <<1, 1>>],
       [key |-> <<"C", "h", "i", "n", "a">>, value |-> <<4, 1>>],
       [key |-> <<"T", "a", "i", "w", "a", "n">>, value |-> <<5, 2>>],
       [key |-> <<"K", "o", "r", "e", "a">>, value |-> <<5, 2>>],
       [key |-> <<"I", "n", "d", "i", "a">>, value |-> <<5, 1>>],
       [key |-> <<"B", "r", "a", "z", "i", "l">>, value |-> <<5, 2>>],
       [key |-> <<"A", "u", "s", "t", "r", "a", "l", "i", "a">>, value |-> <<5, 2>>],
       [key |-> <<"S", "i", "n", "g", "a", "p", "o", "r", "e">>, value |-> <<5, 2>>],
       [key |-> <<"H", "o", "n", "g", " ", "K", "o", "n", "g">>, value |-> <<5, 2>>],
       [key |-> <<"N", "e", "t", "h", "e", "r", "l", "a", "n", "d", "s">>, value |-> <<3, 2>>],
       [key |-> <<"S", "w", "i", "t", "z", "e", "r", "l", "a", "n", "d">>, value |-> <<3, 2>>],
       [key |-> <<"S", "w", "e", "d", "e", "n">>, value |-> <<2, 1>>],
       [key |-> <<"N", "o", "r", "w", "a", "y">>, value |-> <<2, 1>>],
       [key |-> <<"D", "e", "n", "m", "a", "r", "k">>, value |-> <<2, 1>>],
       [key |-> <<"F", "i", "n", "l", "a", "n", "d">>, value |-> <<3, 2>>],
       [key |-> <<"I", "r", "e", "l", "a", "n", "d">>, value |-> <<5, 2>>],
       [key |-> <<"I", "s", "r", "a", "e", "l">>, value |-> <<3, 1>>],
       [key |-> <<"M", "e", "x", "i", "c", "o">>, value |-> <<5, 2>>],
       [key |-> <<"I", "n", "d", "o", "n", "e", "s", "i", "a">>, value |-> <<9, 2>>],
       [key |-> <<"M", "a", "l", "a", "y", "s", "i", "a">>, value |-> <<4, 1>>],
       [key |-> <<"T", "h", "a", "i", "l", "a", "n", "d">>, value |-> <<7, 2>>],
       [key |-> <<"P", "h", "i", "l", "i", "p", "p", "i", "n", "e", "s">>, value |-> <<5, 1>>],
       [key |-> <<"V", "i", "e", "t", "n", "a", "m">>, value |-> <<11, 2>>],
       [key |-> <<"D", "e", "v", "e", "l", "o", "p", "e", "d">>, value |-> <<2, 1>>],
       [key |-> <<"E", "m", "e", "r", "g", "i", "n", "g">>, value |-> <<9, 2>>]
    >>

\* functions/main.py lines 32-65
main_COUNTRY_EQUITY_RISK_PREMIUMS ==
    <<
       [key |-> <<"U", "n", "i", "t", "e", "d", " ", "S", "t", "a", "t", "e", "s">>, value |-> <<223, 50>>],
       [key |-> <<"C", "a", "n", "a", "d", "a">>, value |-> <<423, 100>>],
       [key |-> <<"U", "n", "i", "t", "e", "d", " ", "K", "i", "n", "g", "d", "o", "m">>, value |-> <<501, 100>>],
       [key |-> <<"G", "e", "r", "m", "a", "n", "y">>, value |-> <<423, 100>>],
       [key |-> <<"F", "r", "a", "n", "c", "e">>, value |-> <<501, 100>>],
       [key |-> <<"J", "a", "p", "a", "n">>, value |-> <<257, 50>>],
       [key |-> <<"C", "h", "i", "n", "a">>, value |-> <<257, 50>>],
       [key |-> <<"T", "a", "i", "w", "a", "n">>, value |-> <<501, 100>>],
       [key |-> <<"K", "o", "r", "e", "a">>, value |-> <<487, 100>>],
       [key |-> <<"I", "n", "d", "i", "a">>, value |-> <<177, 25>>],
       [key |-> <<"B", "r", "a", "z", "i", "l">>, value |-> <<747, 100>>],
       [key |-> <<"A", "u", "s", "t", "r", "a", "l", "i", "a">>, value |-> <<423, 100>>],
       [key |-> <<"S", "i", "n", "g", "a", "p", "o", "r", "e">>, value |-> <<423, 100>>],
       [key |-> <<"H", "o", "n", "g", " ", "K", "o", "n", "g">>, value |-> <<501, 100>>],
       [key |-> <<"N", "e", "t", "h", "e", "r", "l", "a", "n", "d", "s">>, value |-> <<423, 100>>],
       [key |-> <<"S", "w", "i", "t", "z", "e", "r", "l", "a", "n", "d">>, value |-> <<423, 100>>],
       [key |-> <<"S", "w", "e", "d", "e", "n">>, value |-> <<423, 100>>],
       [key |-> <<"N", "o", "r", "w", "a", "y">>, value |-> <<423, 100>>],
       [key |-> <<"D", "e", "n", "m", "a", "r", "k">>, value |-> <<423, 100>>],
       [key |-> <<"F", "i", "n", "l", "a", "n", "d">>, value |-> <<459, 100>>],
       [key |-> <<"I", "r", "e", "l", "a", "n", "d">>, value |-> <<501, 100>>],
       [key |-> <<"I", "s", "r", "a", "e", "l">>, value |-> <<63, 10>>],
       [key |-> <<"M", "e", "x", "i", "c", "o">>, value |-> <<669, 100>>],
       [key |-> <<"S", "o", "u", "t", "h", " ", "A", "f", "r", "i", "c", "a">>, value |-> <<813, 100>>],
       [key |-> <<"R", "u", "s", "s", "i", "a">>, value |-> <<813, 100>>],
       [key |-> <<"T", "u", "r", "k", "e", "y">>, value |-> <<503, 50>>],
       [key |-> <<"A", "r", "g", "e", "n", "t", "i", "n", "a">>, value |-> <<697, 50>>],
       [key |-> <<"I", "n", "d", "o", "n", "e", "s", "i", "a">>, value |-> <<669, 100>>],
       [key |-> <<"M", "a", "l", "a", "y", "s", "i", "a">>, value |-> <<289, 50>>],
       [key |-> <<"T", "h", "a", "i", "l", "a", "n", "d">>, value |-> <<63, 10>>],
       [key |-> <<"P", "h", "i", "l", "i", "p", "p", "i", "n", "e", "s">>, value |-> <<669, 100>>],
       [key |-> <<"V", "i", "e", "t", "n", "a", "m">>, value |-> <<813, 100>>]
    >>

\* functions/main.py lines 68-99
main_COUNTRY_GDP_GROWTH ==
    <<
       [key |-> <<"U", "n", "i", "t", "e", "d", " ", "S", "t", "a", "t", "e", "s">>, value |-> <<5, 2>>],
       [key |-> <<"C", "a", "n", "a", "d", "a">>, value |-> <<2, 1>>],
       [key |-> <<"U", "n", "i", "t", "e", "d", " ", "K", "i", "n", "g", "d", "o", "m">>, value |-> <<3, 2>>],
       [key |-> <<"G", "e", "r", "m", "a", "n", "y">>, value |-> <<3, 2>>],
       [key |-> <<"F", "r", "a", "n", "c", "e">>, value |-> <<3, 2>>],
       [key |-> <<"J", "a", "p", "a", "n">>, value |-> <<1, 1>>],
       [key |-> <<"C", "h", "i", "n", "a">>, value |-> <<4, 1>>],
       [key |-> <<"T", "a", "i", "w", "a", "n">>, value |-> <<5, 2>>],
       [key |-> <<"K", "o", "r", "e", "a">>, value |-> <<5, 2>>],
       [key |-> <<"I", "n", "d", "i", "a">>, value |-> <<5, 1>>],
       [key |-> <<"B", "r", "a", "z", "i", "l">>, value |-> <<5, 2>>],
       [key |-> <<"A", "u", "s", "t", "r", "a", "l", "i", "a">>, value |-> <<5, 2>>],
       [key |-> <<"S", "i", "n", "g", "a", "p", "o", "r", "e">>, value |-> <<5, 2>>],
       [key |-> <<"H", "o", "n", "g", " ", "K", "o", "n", "g">>, value |-> <<5, 2>>],
       [key |-> <<"N", "e", "t", "h", "e", "r", "l", "a", "n", "d", "s">>, value |-> <<3, 2>>],
       [key |-> <<"S", "w", "i", "t", "z", "e", "r", "l", "a", "n", "d">>, value |-> <<3, 2>>],
       [key |-> <<"S", "w", "e", "d", "e", "n">>, value |-> <<2, 1>>],
       [key |-> <<"N", "o", "r", "w", "a", "y">>, value |-> <<2, 1>>],
       [key |-> <<"D", "e", "n", "m", "a", "r", "k">>, value |-> <<2, 1>>],
       [key |-> <<"F", "i", "n", "l", "a", "n", "d">>, value |-> <<3, 2>>],
       [key |-> <<"I", "r", "e", "l", "a", "n", "d">>, value |-> <<5, 2>>],
       [key |-> <<"I", "s", "r", "a", "e", "l">>, value |-> <<3, 1>>],
       [key |-> <<"M", "e", "x", "i", "c", "o">>, value |-> <<5, 2>>],
       [key |-> <<"I", "n", "d", "o", "n", "e", "s", "i", "a">>, value |-> <<9, 2>>],
       [key |-> <<"M", "a", "l", "a", "y", "s", "i", "a">>, value |-> <<4, 1>>],
       [key |-> <<"T", "h", "a", "i", "l", "a", "n", "d">>, value |-> <<7, 2>>],
       [key |-> <<"P", "h", "i", "l", "i", "p", "p", "i", "n", "e", "s">>, value |-> <<5, 1>>],
       [key |-> <<"V", "i", "e", "t", "n", "a", "m">>, value |-> <<11, 2>>],
       [key |-> <<"D", "e", "v", "e", "l", "o", "p", "e", "d">>, value |-> <<2, 1>>],
       [key |-> <<"E", "m", "e", "r", "g", "i", "n", "g">>, value |-> <<9, 2>>]
    >>

\* dict membership and subscript (lines 639-640)
HasKey(table, country) == \E i \in DOMAIN table : table[i].key = country
ValueOf(table, country) == table[CHOOSE i \in DOMAIN table : table[i].key = country].value

\* The entries whose lower-cased key equals the lower-cased string, and the
\* first of them in the dict's order (lines 643-646)
LowerMatches(table, country) == {i \in DOMAIN table : lower(table[i].key) = lower(country)}
FirstLowerMatch(table, country) ==
    CHOOSE i \in LowerMatches(table, country) : \A j \in LowerMatches(table, country) : i <= j

CountryLookup_ExactOnly(table, country) ==
    IF HasKey(table, country) THEN ValueOf(table, country) ELSE ValueOf(table, UnitedStates)

\* The body the four lookups share: exact match, then case-insensitive match,
\* then the United States entry (lines 639-649, 670-680; main.py 192-198, 203-209)
CountryLookup(table, country) ==
    IF HasKey(table, country) THEN ValueOf(table, country)
    ELSE IF LowerMatches(table, country) # {}
    THEN table[FirstLowerMatch(table, country)].value
    ELSE ValueOf(table, UnitedStates)

calculate_market_risk_premium(country) == CountryLookup(COUNTRY_EQUITY_RISK_PREMIUMS, country)
calculate_long_term_growth_rate(country) == CountryLookup(COUNTRY_GDP_GROWTH, country)
_get_market_risk_premium(country) == CountryLookup(main_COUNTRY_EQUITY_RISK_PREMIUMS, country)
_get_long_term_growth_rate(country) == CountryLookup(main_COUNTRY_GDP_GROWTH, country)

TableKeys(table) == {table[i].key : i \in DOMAIN table}

\* Country strings: every key of the tables as written, lower-cased and
\* upper-cased, and strings that match no key
UnknownCountries ==
    {<<>>, <<"A", "t", "l", "a", "n", "t", "i", "s">>, <<"U", "n", "i", "t", "e", "d", " ", "S", "t", "a", "t", "e">>, <<"T", "a", "i", "w", "a", "n", " ">>, <<"U", "S", "A">>}
CountryInputs ==
    UNION {{k, lower(k), upper(k)} : k \in TableKeys(COUNTRY_EQUITY_RISK_PREMIUMS) \cup TableKeys(COUNTRY_GDP_GROWTH)}
        \cup UnknownCountries

CountryFns ==
    {"calculate_market_risk_premium", "calculate_long_term_growth_rate", "_get_market_risk_premium", "_get_long_term_growth_rate"}
CountryCalls == [fn : CountryFns, country : CountryInputs]

Apply_calculate_market_risk_premium ==
    /\ call.fn = "calculate_market_risk_premium"
    /\ ~Applied
    /\ ret' = [outcome |-> "ok", value |-> calculate_market_risk_premium(call.country)]
    /\ UNCHANGED call
    /\ UNCHANGED wfVars

Apply_calculate_long_term_growth_rate ==
    /\ call.fn = "calculate_long_term_growth_rate"
    /\ ~Applied
    /\ ret' = [outcome |-> "ok", value |-> calculate_long_term_growth_rate(call.country)]
    /\ UNCHANGED call
    /\ UNCHANGED wfVars

Apply__get_market_risk_premium ==
    /\ call.fn = "_get_market_risk_premium"
    /\ ~Applied
    /\ ret' = [outcome |-> "ok", value |-> _get_market_risk_premium(call.country)]
    /\ UNCHANGED call
    /\ UNCHANGED wfVars

Apply__get_long_term_growth_rate ==
    /\ call.fn = "_get_long_term_growth_rate"
    /\ ~Applied
    /\ ret' = [outcome |-> "ok", value |-> _get_long_term_growth_rate(call.country)]
    /\ UNCHANGED call
    /\ UNCHANGED wfVars

CountryApplied == call.fn \in CountryFns /\ Applied

\* The table a country lookup reads
TableOf(fn) ==
    CASE fn = "calculate_market_risk_premium" -> COUNTRY_EQUITY_RISK_PREMIUMS
      [] fn = "calculate_long_term_growth_rate" -> COUNTRY_GDP_GROWTH
      [] fn = "_get_market_risk_premium" -> main_COUNTRY_EQUITY_RISK_PREMIUMS
      [] fn = "_get_long_term_growth_rate" -> main_COUNTRY_GDP_GROWTH

\* C24: for every country string each of the four lookups returns; the value
\* is that of the table entry whose name equals the string ignoring case, and
\* the United States value when no entry does.
C24_CountryLookup ==
    CountryApplied =>
        /\ ret.outcome = "ok"
        /\ \A i \in DOMAIN TableOf(call.fn) :
              lower(TableOf(call.fn)[i].key) = lower(call.country)
                  => ret.value = TableOf(call.fn)[i].value
        /\ (\A i \in DOMAIN TableOf(call.fn) :
              lower(TableOf(call.fn)[i].key) # lower(call.country))
                  => \E u \in DOMAIN TableOf(call.fn) :
                        /\ TableOf(call.fn)[u].key = UnitedStates
                        /\ ret.value = TableOf(call.fn)[u].value

\* "TAIWAN" matches only after lower-casing and yields a value other than
\* the United States one
C24_Witness ==
    /\ CountryApplied
    /\ ~HasKey(TableOf(call.fn), call.country)
    /\ LowerMatches(TableOf(call.fn), call.country) # {}
    /\ ret.value # ValueOf(TableOf(call.fn), UnitedStates)

(***************************************************************************)
(* The daily batch (functions/main.py lines 267-315)                       *)
(***************************************************************************)
\* A JSON field of the custom-DCF payload: absent or null, a number, or a
\* non-empty string
NullField == [kind |-> "null", value |-> Zero]
NumField(x) == [kind |-> "num", value |-> x]
StrField == [kind |-> "str", value |-> Zero]

\* What _get_custom_dcf_with_params does for one ticker (line 288): it raises
\* (lines 110, 117, 121, 128, 257) or returns the payload
FetchOutcomes ==
    [status : {"raises"}, price : {NullField}, intrinsic : {NullField}]
        \cup [status : {"ok"},
              price : {NullField, NumField(Zero), NumField(RInt(100)), StrField},
              intrinsic : {NumField(RInt(150)), StrField}]

\* `x or 0` on a field (lines 290-291)
OrZero(f) == IF f.kind = "null" \/ (f.kind = "num" /\ f.value = Zero) THEN NumField(Zero) ELSE f

\* Lines 290-311 raise TypeError when a string meets the comparison, the
\* subtraction or round()
ValuationRaises(raw) == OrZero(raw.price).kind = "str" \/ OrZero(raw.intrinsic).kind = "str"

_get_recommendation(upside) ==
    IF ~upside.given \/ RLt(upside.value, RInt(-50)) THEN "AVOID"
    ELSE IF RLt(RInt(50), upside.value) THEN "STRONG BUY"
    ELSE IF RLt(RInt(20), upside.value) THEN "BUY"
    ELSE IF RLt(Zero, upside.value) THEN "HOLD"
    ELSE IF RLt(RInt(-20), upside.value) THEN "HOLD"
    ELSE "SELL"

\* Lines 295-299
Upside(raw) ==
    LET price == OrZero(raw.price).value
        intrinsic == OrZero(raw.intrinsic).value
    IN IF RLt(Zero, price)
       THEN Some(RMul(RDiv(RSub(intrinsic, price), price), RInt(100)))
       ELSE None

\* The entry of line 301 (the fields the payload alone determines)
ResultEntry(ticker, raw) ==
    [ticker |-> ticker,
     price |-> RoundHundredths(OrZero(raw.price).value),
     intrinsic |-> RoundHundredths(OrZero(raw.intrinsic).value),
     upside |-> IF Upside(raw).given THEN Some(RoundHundredths(Upside(raw).value)) ELSE None,
     recommendation |-> _get_recommendation(Upside(raw))]

\* dict[key] = value
DictSet(dict, key, value) ==
    [k \in DOMAIN dict \cup {key} |-> IF k = key THEN value ELSE dict[k]]
EmptyDict == [k \in {} |-> 0]

\* The configured tickers are pairwise distinct (lines 24-27)
TickerSet == {"AMZN", "NVDA", "TSM"}
DistinctSeqs(S) ==
    UNION {{s \in [1..n -> S] : \A i, j \in 1..n : i # j => s[i] # s[j]} : n \in 0..Cardinality(S)}

RunAnalysisCalls ==
    [fn : {"_run_analysis"},
     tickers : DistinctSeqs(TickerSet),
     fetch : [TickerSet -> FetchOutcomes]]

\* Lines 283-284
RunAnalysis_Begin ==
    /\ call.fn = "_run_analysis"
    /\ ret.outcome = "none"
    /\ ret' = [outcome |-> "running", index |-> 1, processed |-> <<>>,
               results |-> EmptyDict, errors |-> EmptyDict]
    /\ UNCHANGED call
    /\ UNCHANGED wfVars

NextIndexAfterError_AbortsBatch(index, n) == n + 1

\* The handler of lines 312-313 is inside the loop: the next ticker follows
NextIndexAfterError(index, n) == index + 1

\* One pass of the loop body (lines 286-313)
RunAnalysis_Ticker ==
    /\ call.fn = "_run_analysis"
    /\ ret.outcome = "running"
    /\ ret.index <= Len(call.tickers)
    /\ LET ticker == call.tickers[ret.index]
           raw == call.fetch[ticker]
       IN IF raw.status = "raises" \/ ValuationRaises(raw)
          THEN ret' = [ret EXCEPT !.index = NextIndexAfterError(ret.index, Len(call.tickers)),
                                  !.processed = Append(ret.processed, ticker),
                                  !.errors = DictSet(ret.errors, ticker, "str(e)")]
          ELSE ret' = [ret EXCEPT !.index = ret.index + 1,
                                  !.processed = Append(ret.processed, ticker),
                                  !.results = DictSet(ret.results, ticker, ResultEntry(ticker, raw))]
    /\ UNCHANGED call
    /\ UNCHANGED wfVars

\* Line 315
RunAnalysis_Return ==
    /\ call.fn = "_run_analysis"
    /\ ret.outcome = "running"
    /\ ret.index > Len(call.tickers)
    /\ ret' = [ret EXCEPT !.outcome = "ok"]
    /\ UNCHANGED call
    /\ UNCHANGED wfVars

RunAnalysisReturned == call.fn = "_run_analysis" /\ ret.outcome = "ok"

\* C25: when _run_analysis returns it has processed every ticker of its list
\* in order, every ticker is a key of exactly one of results and errors, and
\* a ticker is in errors exactly when its own fetch or valuation raised.
C25_BatchContinues ==
    RunAnalysisReturned =>
        /\ ret.processed = call.tickers
        /\ \A i \in DOMAIN call.tickers :
              LET t == call.tickers[i]
              IN /\ (t \in DOMAIN ret.results) # (t \in DOMAIN ret.errors)
                 /\ (t \in DOMAIN ret.errors)
                       <=> (call.fetch[t].status = "raises"
                              \/ call.fetch[t].price.kind = "str"
                              \/ call.fetch[t].intrinsic.kind = "str")
        /\ DOMAIN ret.results \cup DOMAIN ret.errors = {call.tickers[i] : i \in DOMAIN call.tickers}

\* The first ticker's fetch raised and the two after it were still valued
C25_Witness ==
    /\ RunAnalysisReturned
    /\ Len(call.tickers) = 3
    /\ call.fetch[call.tickers[1]].status = "raises"
    /\ DOMAIN ret.errors = {call.tickers[1]}
    /\ DOMAIN ret.results = {call.tickers[2], call.tickers[3]}
    /\ ret.results[call.tickers[2]].recommendation = "BUY"
    /\ ret.results[call.tickers[3]].recommendation = "AVOID"

(***************************************************************************)
(* run_company_analysis (company_analysis_workflow.py lines 63-229)        *)
(*                                                                         *)
(* The state of one call is kept in ret: the position of the coroutine     *)
(* (main), the two tasks asyncio.gather runs (industry, financial), the    *)
(* context store, and what the call has done so far.                       *)
(***************************************************************************)
CompanyCalls ==
    [fn : {"run_company_analysis"},
     company_name_given : BOOLEAN,
     on_status : BOOLEAN]

\* A call of _status (lines 108-110) returns; when the caller passed an
\* on_status callback, the callback may also raise
StatusRaises == IF call.on_status THEN BOOLEAN ELSE {FALSE}

Branches == {"industry", "financial"}
PostGatherSteps ==
    {"upload_industry", "upload_financial", "create_store", "upload_files",
     "synthesis", "upload_synthesis", "cleanup", "complete"}

CompanyRunning == call.fn = "run_company_analysis" /\ ret.outcome = "running"
CompanyStarted == call.fn = "run_company_analysis" /\ ret.outcome # "none"
CompanyEnded == call.fn = "run_company_analysis" /\ ret.outcome \in {"returned", "raised"}

\* An exception leaves the coroutine
Raise == [ret EXCEPT !.outcome = "raised", !.main = "exit"]

\* Lines 101-120: argument check, results = {}, first status message
Company_Start ==
    /\ call.fn = "run_company_analysis"
    /\ ret.outcome = "none"
    /\ \E status_raises \in StatusRaises :
          ret' = [outcome |-> IF call.company_name_given /\ ~status_raises
                              THEN "running" ELSE "raised",
                  main |-> IF call.company_name_given /\ ~status_raises
                           THEN "gather" ELSE "exit",
                  industry |-> IF call.company_name_given /\ ~status_raises
                               THEN "pending" ELSE "none",
                  financial |-> IF call.company_name_given /\ ~status_raises
                                THEN "pending" ELSE "none",
                  store |-> "none",
                  creates |-> 0,
                  deletes |-> 0,
                  drive_uploads |-> 0,
                  synthesis_started |-> FALSE,
                  pending_exception |-> FALSE,
                  results |-> {}]
    /\ UNCHANGED call
    /\ UNCHANGED wfVars

\* One step of a task between two suspension points (lines 122-146;
\* deep_research.py lines 402-463): the research starts, is polled again,
\* completes, or raises.  A task goes on after the coroutine that awaited
\* the gather has raised.
Branch_Step(b) ==
    /\ call.fn = "run_company_analysis"
    /\ ret.outcome \in {"running", "raised"}
    /\ ret[b] \in {"pending", "polling"}
    /\ \E next \in {"polling", "done", "failed"} :
          /\ ret[b] = "pending" => next # "done"
          /\ ret[b] = "polling" => next # "polling"
          /\ ret' = [ret EXCEPT ![b] = next]
    /\ UNCHANGED call
    /\ UNCHANGED wfVars

\* asyncio.run cancels the task that is still running when the coroutine
\* has raised (lines 245-254)
Branch_Cancelled(b) ==
    /\ call.fn = "run_company_analysis"
    /\ ret.outcome = "raised"
    /\ ret[b] \in {"pending", "polling"}
    /\ ret' = [ret EXCEPT ![b] = "cancelled"]
    /\ UNCHANGED call
    /\ UNCHANGED wfVars

GatherReady_EitherDone(industry, financial) == industry = "done" \/ financial = "done"

\* asyncio.gather returns when both tasks have returned (line 149)
GatherReady(industry, financial) == industry = "done" /\ financial = "done"

\* Lines 149-155
Gather_Return ==
    /\ CompanyRunning
    /\ ret.main = "gather"
    /\ ~(ret.industry = "failed" \/ ret.financial = "failed")
    /\ GatherReady(ret.industry, ret.financial)
    /\ ret' = [ret EXCEPT !.main = "upload_industry",
                          !.results = @ \cup {"industry_analysis", "financial_modeling"}]
    /\ UNCHANGED call
    /\ UNCHANGED wfVars

\* asyncio.gather raises the first exception of a task (line 149)
Gather_Raise ==
    /\ CompanyRunning
    /\ ret.main = "gather"
    /\ ret.industry = "failed" \/ ret.financial = "failed"
    /\ ret' = Raise
    /\ UNCHANGED call
    /\ UNCHANGED wfVars

\* A Drive upload between two status messages: it returns, or an exception
\* is raised before the file is uploaded (status message, upload_to_drive)
\* or after it (status message)
UploadOutcomes == {"ok", "raises_before", "raises_after"}
Uploaded(outcome) == IF outcome = "raises_before" THEN 0 ELSE 1

\* Lines 158-168
Upload_Industry ==
    /\ CompanyRunning
    /\ ret.main = "upload_industry"
    /\ \E outcome \in UploadOutcomes :
          ret' = IF outcome = "ok"
                 THEN [ret EXCEPT !.main = "upload_financial",
                                  !.drive_uploads = @ + 1,
                                  !.results = @ \cup {"industry_drive_url"}]
                 ELSE [Raise EXCEPT !.drive_uploads = @ + Uploaded(outcome),
                                    !.results = @ \cup (IF outcome = "raises_after" THEN {"industry_drive_url"} ELSE {})]
    /\ UNCHANGED call
    /\ UNCHANGED wfVars

\* Lines 170-178
Upload_Financial ==
    /\ CompanyRunning
    /\ ret.main = "upload_financial"
    /\ \E outcome \in UploadOutcomes :
          ret' = IF outcome = "ok"
                 THEN [ret EXCEPT !.main = "create_store",
                                  !.drive_uploads = @ + 1,
                                  !.results = @ \cup {"financial_drive_url"}]
                 ELSE [Raise EXCEPT !.drive_uploads = @ + Uploaded(outcome),
                                    !.results = @ \cup (IF outcome = "raises_after" THEN {"financial_drive_url"} ELSE {})]
    /\ UNCHANGED call
    /\ UNCHANGED wfVars

\* Lines 181-187: the status message or create_store raises, or the store
\* is created
Create_Store ==
    /\ CompanyRunning
    /\ ret.main = "create_store"
    /\ \E created \in BOOLEAN :
          ret' = IF created
                 THEN [ret EXCEPT !.main = "upload_files", !.store = "created", !.creates = @ + 1]
                 ELSE Raise
    /\ UNCHANGED call
    /\ UNCHANGED wfVars

\* An exception inside the try block of lines 189-221 runs the finally
\* clause with the exception pending
ToFinally(raised) == [ret EXCEPT !.main = "cleanup", !.pending_exception = raised]

\* Lines 191-196
Upload_Files ==
    /\ CompanyRunning
    /\ ret.main = "upload_files"
    /\ \E raises \in BOOLEAN :
          ret' = IF raises THEN ToFinally(TRUE) ELSE [ret EXCEPT !.main = "synthesis"]
    /\ UNCHANGED call
    /\ UNCHANGED wfVars

\* Lines 199-210: the synthesis research is awaited; it returns or raises
Synthesis ==
    /\ CompanyRunning
    /\ ret.main = "synthesis"
    /\ \E raises \in BOOLEAN :
          ret' = IF raises
                 THEN [ToFinally(TRUE) EXCEPT !.synthesis_started = TRUE]
                 ELSE [ret EXCEPT !.main = "upload_synthesis",
                                  !.synthesis_started = TRUE,
                                  !.results = @ \cup {"synthesis"}]
    /\ UNCHANGED call
    /\ UNCHANGED wfVars

\* Lines 213-221
Upload_Synthesis ==
    /\ CompanyRunning
    /\ ret.main = "upload_synthesis"
    /\ \E outcome \in UploadOutcomes :
          ret' = IF outcome = "ok"
                 THEN [ToFinally(FALSE) EXCEPT !.drive_uploads = @ + 1,
                                               !.results = @ \cup {"synthesis_drive_url"}]
                 ELSE [ToFinally(TRUE) EXCEPT !.drive_uploads = @ + Uploaded(outcome),
                                              !.results = @ \cup (IF outcome = "raises_after" THEN {"synthesis_drive_url"} ELSE {})]
    /\ UNCHANGED call
    /\ UNCHANGED wfVars

\* The finally clause (lines 223-226): the status message is sent first and
\* may raise, then delete_store is called and may raise (document_store.py
\* lines 253-258); an exception of either replaces the pending one.  When
\* both return, a pending exception is raised again.
Cleanup ==
    /\ CompanyRunning
    /\ ret.main = "cleanup"
    /\ \E status_raises \in StatusRaises, delete_raises \in BOOLEAN :
          ret' = IF status_raises \/ delete_raises
                 THEN Raise
                 ELSE IF ret.pending_exception
                 THEN [Raise EXCEPT !.store = "deleted", !.deletes = @ + 1]
                 ELSE [ret EXCEPT !.main = "complete", !.store = "deleted", !.deletes = @ + 1]
    /\ UNCHANGED call
    /\ UNCHANGED wfVars

\* Lines 228-229
Complete ==
    /\ CompanyRunning
    /\ ret.main = "complete"
    /\ \E status_raises \in StatusRaises :
          ret' = IF status_raises THEN Raise
                 ELSE [ret EXCEPT !.outcome = "returned", !.main = "exit"]
    /\ UNCHANGED call
    /\ UNCHANGED wfVars

\* C26: when run_company_analysis has returned or raised, a context store
\* that create_store created has been deleted, exactly once.
C26_StoreDeletedOnce ==
    CompanyEnded =>
        /\ ret.creates = 1 => (ret.store = "deleted" /\ ret.deletes = 1)
        /\ ret.creates = 0 => ret.deletes = 0

\* C27: the Drive uploads, the store creation and the synthesis happen only
\* when both tasks have returned; when a task has raised, none of them has
\* happened, the coroutine is still at the gather or has raised, and it
\* never returns.
C27_FanIn ==
    CompanyStarted =>
        /\ (\/ ret.main \in PostGatherSteps
            \/ ret.drive_uploads > 0
            \/ ret.creates > 0
            \/ ret.synthesis_started
            \/ ret.outcome = "returned")
              => (ret.industry = "done" /\ ret.financial = "done")
        /\ (ret.industry = "failed" \/ ret.financial = "failed")
              => /\ ret.main = "gather" \/ ret.outcome = "raised"
                 /\ ret.drive_uploads = 0
                 /\ ret.creates = 0
                 /\ ~ret.synthesis_started
                 /\ ret.results = {}

\* The financial task returned, the industry task raised afterwards, and
\* the call raised without an upload
C27_Witness ==
    /\ CompanyEnded
    /\ ret.outcome = "raised"
    /\ ret.industry = "failed"
    /\ ret.financial = "done"
    /\ ret.drive_uploads = 0
    /\ ret.store = "none"

(***************************************************************************)
(* Claims about the order of producer and reviewer calls                   *)
(***************************************************************************)
\* C28: producer and reviewer calls alternate, starting with a producer
\* call.  A producer call other than the first is a refine that comes right
\* after a rejecting verdict obtained with iteration < MAX_ITERATIONS, and
\* its arguments are the text that verdict reviewed and that verdict's
\* feedback; so no producer call follows an approving verdict or the
\* MAX_ITERATIONS-th review.
C28_Alternation ==
    [][/\ producer_calls' # producer_calls =>
             /\ producer_calls = reviewer_calls
             /\ \/ review_history = <<>>
                \/ /\ LastReview.verdict.approved = "false"
                   /\ iteration < MAX_ITERATIONS
                   /\ Len(review_history) < MAX_ITERATIONS
                   /\ refine_args.reviewed_by = Len(review_history)
                   /\ refine_args.prior_analysis = LastReview.reviewed
                   /\ refine_args.feedback = LastReview.verdict.feedback
       /\ reviewer_calls' # reviewer_calls => producer_calls = reviewer_calls + 1
      ]_vars

\* The refine after the first, rejecting, review is running: it was given
\* the first analysis and that review's feedback
C28_Witness ==
    /\ pc = "tools"
    /\ producer_calls = 2
    /\ reviewer_calls = 1
    /\ LastReview.verdict.approved = "false"
    /\ refine_args.prior_analysis = 1
    /\ refine_args.reviewed_by = 1

\* C29: when run_agents_workflow returns, review_history holds the verdicts
\* of all reviews in the order they were made, iterations is its length and
\* lies in 1..MAX_ITERATIONS, and final_analysis is the text the last verdict
\* judged; the text uploaded as the final report is that text too.
C29_FinalWasReviewed ==
    /\ pc \in {"final_upload", "done"} =>
          /\ review_history # <<>>
          /\ workflow_result.final_analysis = LastReview.reviewed
    /\ pc = "done" =>
          /\ Len(review_history) = reviewer_calls
          /\ \A k \in DOMAIN review_history : review_history[k].reviewed = k
          /\ workflow_result.iterations = Len(review_history)
          /\ workflow_result.iterations \in 1..MAX_ITERATIONS

\* Returned after a refinement: the second text was reviewed and is final
C29_Witness ==
    /\ pc = "done"
    /\ workflow_result.drive_url = "url"
    /\ workflow_result.iterations = 2
    /\ workflow_result.final_analysis = 2
    /\ LastReview.reviewed = 2

\* C30: in the assumptions of every CBCVResult, cac_source is "calculated"
\* only when CAC was computed from the sales-and-marketing expense and the
\* caller's new_customers, arpu_source is "provided" exactly when the caller
\* supplied ARPU, and churn_source is "provided" exactly when the caller
\* supplied a churn rate.
C30_ProvenanceLabels ==
    CbcvReturned =>
        /\ ret.result.assumptions.cac_source = "calculated" =>
              /\ ~call.cac.given
              /\ call.new_customers.given
              /\ call.new_customers.value > 0
              /\ ret.result.cac = calculate_cac(get_cbcv_financial_inputs(call).sm_expense, call.new_customers.value)
        /\ ret.result.assumptions.arpu_source = "provided" <=> call.arpu.given
        /\ ret.result.assumptions.churn_source = "provided" <=> call.churn_rate.given

\* ---- SPECIFICATIONS OF THE VALUATION FUNCTIONS ----
(***************************************************************************)
(* One specification per model file: Init draws a call of one of the       *)
(* file's functions, the actions apply the function to it.                 *)
(***************************************************************************)
DcfInit ==
    /\ WorkflowIdle
    /\ \/ call \in TerminalValueCalls
       \/ call \in ProjectionCalls
       \/ call \in RevenueGrowthCalls
       \/ call \in IntrinsicValueCalls
       \/ call \in WaccCalls
       \/ call \in CountryCalls
       \/ call \in BuildDcfFetched
       \/ call \in BuildDcfUnfetched
    /\ ret = NoRet

DcfNext ==
    \/ Apply_calculate_terminal_value
    \/ Apply_project_free_cash_flows
    \/ Apply_calculate_revenue_growth_pct
    \/ Apply_calculate_intrinsic_value
    \/ Apply_calculate_wacc
    \/ Apply_calculate_market_risk_premium
    \/ Apply_calculate_long_term_growth_rate
    \/ Apply__get_market_risk_premium
    \/ Apply__get_long_term_growth_rate
    \/ Apply_build_dcf_model

DcfSpec == DcfInit /\ [][DcfNext]_vars

CbcvInit ==
    /\ WorkflowIdle
    /\ \/ call \in BuildCbcvFetched
       \/ call \in BuildCbcvUnfetched
       \/ call \in FutureEquityCalls
       \/ call \in ClvCalls
       \/ call \in SensitivityMatrixCalls
    /\ ret = NoRet

CbcvNext ==
    \/ Apply_build_cbcv_model
    \/ Apply_calculate_future_customer_equity
    \/ Apply_calculate_clv
    \/ Apply_build_sensitivity_matrix

CbcvSpec == CbcvInit /\ [][CbcvNext]_vars

(***************************************************************************)
(* The batch of functions/main.py: Init draws the ticker list and what the *)
(* data provider answers for each ticker.                                  *)
(***************************************************************************)
BatchInit ==
    /\ WorkflowIdle
    /\ call \in RunAnalysisCalls
    /\ ret = NoRet

BatchNext ==
    \/ RunAnalysis_Begin
    \/ RunAnalysis_Ticker
    \/ RunAnalysis_Return

BatchSpec == BatchInit /\ [][BatchNext]_vars

(***************************************************************************)
(* run_company_analysis: Init draws the arguments; the outcome of every    *)
(* external call is chosen when the call is made.                          *)
(***************************************************************************)
CompanyInit ==
    /\ WorkflowIdle
    /\ call \in CompanyCalls
    /\ ret = NoRet

CompanyNext ==
    \/ Company_Start
    \/ \E b \in Branches : Branch_Step(b)
    \/ \E b \in Branches : Branch_Cancelled(b)
    \/ Gather_Return
    \/ Gather_Raise
    \/ Upload_Industry
    \/ Upload_Financial
    \/ Create_Store
    \/ Upload_Files
    \/ Synthesis
    \/ Upload_Synthesis
    \/ Cleanup
    \/ Complete

CompanySpec == CompanyInit /\ [][CompanyNext]_vars

====
